---- MODULE Spec2Model ----
(***************************************************************************)
(* Settlement engine of the betslip evaluator: the per-market evaluators   *)
(* (evaluator.py), the slip aggregator and the evaluate_betslip loop, the   *)
(* result provider's contract (api_client.py) and the table path's row     *)
(* mapping (service.py).                                                   *)
(*                                                                         *)
(* Representation.  Python str is a TLA+ string, processed character by    *)
(* character (Len, SubSeq, \o).  Optional[T] is a sequence of length at    *)
(* most one: None is <<>>, a present value v is <<v>>.  A float line is    *)
(* the integer number of 1/LineScale units it holds, so that the code's    *)
(* comparison "value == line" reads value * LineScale = line.  The reason  *)
(* of a SelectionResult keeps the fixed text of the code's f-string, with  *)
(* the interpolated values left out.                                       *)
(***************************************************************************)
EXTENDS Integers, Sequences, FiniteSets, TLC

VARIABLES
    selections,   \* evaluate_betslip: the input selections
    idx,          \* evaluate_betslip: number of selections the loop has finished
    sel,          \* the selection being evaluated (loop variable / evaluator input)
    outcome,      \* the FixtureOutcome last fetched (local variable), None before
    stats,        \* the FixtureStatistics last fetched (local variable), None before
    results,      \* the list of SelectionResult built so far
    calls,        \* the provider calls made so far, in order
    pc,           \* position in the running operation
    slip,         \* the slip status returned, None until returned
    payload       \* service.py: the request an endpoint is handling, None otherwise

vars == <<selections, idx, sel, outcome, stats, results, calls, pc, slip, payload>>

----------------------------------------------------------------------------
(* Bounds of the model *)

MaxAggLen == 4      \* longest status list given to the aggregator
MaxLegs == 2        \* longest slip given to evaluate_betslip
MaxGoals == 1       \* largest goal count of one side in one period record
MaxPen == 1         \* largest shootout score of one side
MaxStat == 1        \* largest count of one statistic of one side
LineScale == 2      \* a line is a multiple of 1/LineScale
MaxEvents == 2      \* longest list of match events of one fixture

----------------------------------------------------------------------------
(* Optional values and strings *)

None == <<>>
Some(v) == <<v>>
Val(x) == x[1]

Char(s, i) == SubSeq(s, i, i)

LowerChars == "abcdefghijklmnopqrstuvwxyz"
UpperChars == "ABCDEFGHIJKLMNOPQRSTUVWXYZ"

UpperChar(c) ==
    IF \E k \in 1..Len(LowerChars) : Char(LowerChars, k) = c
    THEN LET k == CHOOSE k \in 1..Len(LowerChars) : Char(LowerChars, k) = c
         IN  Char(UpperChars, k)
    ELSE c

RECURSIVE upper(_)
upper(s) == IF s = "" THEN "" ELSE UpperChar(Char(s, 1)) \o upper(Tail(s))

Whitespace == {" ", "\t", "\n", "\r"}

RECURSIVE lstrip(_, _)
lstrip(s, chars) ==
    IF s # "" /\ Char(s, 1) \in chars THEN lstrip(Tail(s), chars) ELSE s

RECURSIVE rstrip(_, _)
rstrip(s, chars) ==
    IF s # "" /\ Char(s, Len(s)) \in chars
    THEN rstrip(SubSeq(s, 1, Len(s) - 1), chars)
    ELSE s

strip(s) == rstrip(lstrip(s, Whitespace), Whitespace)
strip_chars(s, chars) == rstrip(lstrip(s, chars), chars)

\* s.replace(c, r) for a single character c
RECURSIVE replace_char(_, _, _)
replace_char(s, c, r) ==
    IF s = "" THEN ""
    ELSE (IF Char(s, 1) = c THEN r ELSE Char(s, 1)) \o replace_char(Tail(s), c, r)

\* Python truthiness of an Optional[str]: "x or default"
Or(x, default) == IF x = None \/ Val(x) = "" THEN default ELSE Val(x)

\* s.split(sep) for a single character sep
RECURSIVE split(_, _)
split(s, sep) ==
    IF \A k \in 1..Len(s) : Char(s, k) # sep THEN <<s>>
    ELSE LET k == CHOOSE k \in 1..Len(s) :
                     Char(s, k) = sep /\ \A j \in 1..(k - 1) : Char(s, j) # sep
         IN  <<SubSeq(s, 1, k - 1)>> \o split(SubSeq(s, k + 1, Len(s)), sep)

Digits == {"0", "1", "2", "3", "4", "5", "6", "7", "8", "9"}

\* Characters for which str.isdigit() holds and int() raises ValueError
SuperscriptDigits == {"²"}

isdigit(s) == s # "" /\ \A k \in 1..Len(s) : Char(s, k) \in Digits \cup SuperscriptDigits

\* c in s for a single character c
Contains(s, c) == \E k \in 1..Len(s) : Char(s, k) = c

DigitString == "0123456789"

DigitVal(c) == (CHOOSE k \in 1..10 : Char(DigitString, k) = c) - 1

RECURSIVE DecimalValue(_)
DecimalValue(s) ==
    IF s = "" THEN 0
    ELSE DecimalValue(SubSeq(s, 1, Len(s) - 1)) * 10 + DigitVal(Char(s, Len(s)))

\* int(s): None stands for ValueError.  Surrounding whitespace, one sign and
\* single underscores between digits are accepted, as by Python.
int(s) ==
    LET t == strip(s)
        signed == t # "" /\ Char(t, 1) \in {"+", "-"}
        body == IF signed THEN Tail(t) ELSE t
        wellformed ==
            /\ body # ""
            /\ \A k \in 1..Len(body) : Char(body, k) \in Digits \cup {"_"}
            /\ Char(body, 1) # "_" /\ Char(body, Len(body)) # "_"
            /\ \A k \in 1..(Len(body) - 1) : ~(Char(body, k) = "_" /\ Char(body, k + 1) = "_")
        magnitude == DecimalValue(replace_char(body, "_", ""))
    IN  IF ~wellformed THEN None
        ELSE Some(IF signed /\ Char(t, 1) = "-" THEN -magnitude ELSE magnitude)

\* s.endswith(c) for a single character c
endswith(s, c) == s # "" /\ Char(s, Len(s)) = c

\* dict.get: None on a miss
Get(mapping, key) ==
    LET hits == {p \in mapping : p[1] = key} IN
    IF hits = {} THEN None ELSE Some((CHOOSE p \in hits : TRUE)[2])

\* mapping[key] and the keys of a dict
Lookup(mapping, key) == Val(Get(mapping, key))
Keys(mapping) == {p[1] : p \in mapping}

----------------------------------------------------------------------------
(* models.py *)

WON == "won"
LOST == "lost"
PENDING == "pending"
VOID == "void"
REFUND == "refund"
CANCELLED == "cancelled"
NOT_SUPPORTED == "not_supported"

SelectionStatus == {WON, LOST, PENDING, VOID, "push", REFUND, CANCELLED, NOT_SUPPORTED}

UNMAPPED == "UNMAPPED"

Selection(fixture_id, market, pick, line, team, raw_market) ==
    [fixture_id |-> fixture_id, market |-> market, pick |-> pick,
     line |-> line, team |-> team, raw_market |-> raw_market]

SelectionResult(fixture_id, market, pick, status, reason) ==
    [fixture_id |-> fixture_id, market |-> market, pick |-> pick,
     status |-> status, reason |-> reason]

Market == {
    "UNMAPPED", "MATCH_WINNER", "DOUBLE_CHANCE",
    "DRAW_NO_BET", "OVER_UNDER", "BTTS",
    "TEAM_OVER_UNDER", "EXACT_GOALS", "TEAM_EXACT_GOALS",
    "MULTI_GOALS", "ODD_EVEN", "CORRECT_SCORE",
    "ASIAN_HANDICAP", "HANDICAP_RESULT", "CLEAN_SHEET",
    "WIN_TO_NIL", "FIRST_TEAM_TO_SCORE", "LAST_TEAM_TO_SCORE",
    "RESULT_BTTS", "RESULT_OVER_UNDER", "MARGIN_OF_VICTORY",
    "HT_MATCH_WINNER", "HT_OVER_UNDER", "HT_BTTS",
    "HT_DOUBLE_CHANCE", "HT_DRAW_NO_BET", "HT_ODD_EVEN",
    "HT_CORRECT_SCORE", "HT_ASIAN_HANDICAP", "SECOND_HALF_MATCH_WINNER",
    "SECOND_HALF_OVER_UNDER", "SECOND_HALF_BTTS", "SECOND_HALF_DOUBLE_CHANCE",
    "SECOND_HALF_DRAW_NO_BET", "SECOND_HALF_ODD_EVEN", "SECOND_HALF_CORRECT_SCORE",
    "HT_FT", "TO_SCORE_IN_BOTH_HALVES", "TO_WIN_EITHER_HALF",
    "TO_WIN_BOTH_HALVES", "HIGHEST_SCORING_HALF", "BOTH_HALVES_OVER_UNDER",
    "CORNERS_OVER_UNDER", "TEAM_CORNERS_OVER_UNDER", "CARDS_OVER_UNDER",
    "TEAM_CARDS_OVER_UNDER", "SHOTS_OVER_UNDER", "SHOTS_ON_TARGET_OVER_UNDER",
    "FOULS_OVER_UNDER", "OFFSIDES_OVER_UNDER", "MOST_CORNERS",
    "MOST_CARDS", "MOST_OFFSIDES", "MOST_FOULS",
    "MOST_SHOTS", "MOST_SHOTS_ON_TARGET"
}

\* The value of sel before any selection is taken
NoSelection == Selection(0, UNMAPPED, "", None, None, None)

FixtureOutcome(fixture_id, status_short, home_goals, away_goals, halftime_home, halftime_away, fulltime_home, fulltime_away, penalty_home, penalty_away, first_to_score, last_to_score) ==
    [fixture_id |-> fixture_id, status_short |-> status_short,
     home_goals |-> home_goals, away_goals |-> away_goals,
     halftime_home |-> halftime_home, halftime_away |-> halftime_away,
     fulltime_home |-> fulltime_home, fulltime_away |-> fulltime_away,
     penalty_home |-> penalty_home, penalty_away |-> penalty_away,
     first_to_score |-> first_to_score, last_to_score |-> last_to_score]

StatisticsFields ==
    {"corners_home", "corners_away", "yellow_home", "yellow_away",
     "red_home", "red_away", "shots_home", "shots_away",
     "shots_on_target_home", "shots_on_target_away",
     "fouls_home", "fouls_away", "offsides_home", "offsides_away"}

\* FixtureStatistics(fixture_id, **given): the fields not given default to None
FixtureStatistics(fixture_id, given) ==
    [f \in StatisticsFields \cup {"fixture_id"} |->
        IF f = "fixture_id" THEN fixture_id
        ELSE IF f \in DOMAIN given THEN given[f]
        ELSE None]

----------------------------------------------------------------------------
(* api_client.py: the result provider *)

\* Mutant: a first-half code taken for a final one.
FINAL_STATUSES_with_first_half == {"FT", "AET", "PEN", "AWD", "WO", "1H"}

FINAL_STATUSES == {"FT", "AET", "PEN", "AWD", "WO"}

is_final_status(status_short) == status_short \in FINAL_STATUSES

----------------------------------------------------------------------------
(* evaluator.py: helpers *)

W == WON
L == LOST
P == PENDING
NS == NOT_SUPPORTED
PUSH == "push"

_r(s, status, reason) ==
    SelectionResult(s.fixture_id, s.market, s.pick, status, reason)

\* An exception leaving an evaluator (a failed assert)
Raised(exc) == [raised |-> exc]
IsRaised(r) == "raised" \in DOMAIN r

_result_category(home, away) ==
    IF home > away THEN "HOME"
    ELSE IF home < away THEN "AWAY"
    ELSE "DRAW"

_fulltime_score(o) ==
    IF o.home_goals = None \/ o.away_goals = None THEN None
    ELSE Some(<<Val(o.home_goals), Val(o.away_goals)>>)

_halftime_score(o) ==
    IF o.halftime_home = None \/ o.halftime_away = None THEN None
    ELSE Some(<<Val(o.halftime_home), Val(o.halftime_away)>>)

\* Variant: an absent halftime score counts as 0:0
_second_half_score_halftime_default(o) ==
    LET ft == _fulltime_score(o)
        ht == _halftime_score(o)
    IN  IF ft = None THEN None
        ELSE IF ht = None THEN ft
        ELSE Some(<<Val(ft)[1] - Val(ht)[1], Val(ft)[2] - Val(ht)[2]>>)

_second_half_score(o) ==
    LET ft == _fulltime_score(o)
        ht == _halftime_score(o)
    IN  IF ft = None \/ ht = None THEN None
        ELSE Some(<<Val(ft)[1] - Val(ht)[1], Val(ft)[2] - Val(ht)[2]>>)

_period_score(o, period) ==
    IF period = "FT" THEN _fulltime_score(o)
    ELSE IF period = "HT" THEN _halftime_score(o)
    ELSE IF period = "2H" THEN _second_half_score(o)
    ELSE None

\* Comparisons of an integer value with a float line (held in 1/LineScale units)
EqLine(value, line) == value * LineScale = Val(line)
GtLine(value, line) == value * LineScale > Val(line)
LtLine(value, line) == value * LineScale < Val(line)

----------------------------------------------------------------------------
(* evaluator.py: generic period-parametrised helpers *)

period_label(period) ==
    CASE period = "FT" -> "Final"
      [] period = "HT" -> "Halftime"
      [] period = "2H" -> "2nd-half"

\* Mutant: a level score is settled as a push, as in draw-no-bet.
_eval_period_match_winner_draw_pushes(s, o, period) ==
    LET sc == _period_score(o, period)
        pick == upper(s.pick)
    IN  IF sc = None THEN _r(s, P, "Missing " \o period \o " score data")
        ELSE IF pick \notin {"HOME", "DRAW", "AWAY"}
             THEN _r(s, NS, "Pick must be HOME, DRAW, or AWAY")
        ELSE IF Val(sc)[1] = Val(sc)[2] THEN _r(s, PUSH, period_label(period) \o " score=")
        ELSE _r(s, IF pick = _result_category(Val(sc)[1], Val(sc)[2]) THEN W ELSE L,
                period_label(period) \o " score=")

\* Mutant: the shootout score decides a level score in every period.
_eval_period_match_winner_shootout_any_period(s, o, period) ==
    LET sc == _period_score(o, period)
        by_goals == _result_category(Val(sc)[1], Val(sc)[2])
        actual ==
            IF by_goals = "DRAW" /\ o.status_short = "PEN"
               /\ o.penalty_home # None /\ o.penalty_away # None
            THEN IF Val(o.penalty_home) > Val(o.penalty_away) THEN "HOME"
                 ELSE IF Val(o.penalty_home) < Val(o.penalty_away) THEN "AWAY"
                 ELSE by_goals
            ELSE by_goals
        pick == upper(s.pick)
    IN  IF sc = None THEN _r(s, P, "Missing " \o period \o " score data")
        ELSE IF pick \notin {"HOME", "DRAW", "AWAY"}
             THEN _r(s, NS, "Pick must be HOME, DRAW, or AWAY")
        ELSE _r(s, IF pick = actual THEN W ELSE L, period_label(period) \o " score=")

_eval_period_match_winner(s, o, period) ==
    LET sc == _period_score(o, period)
        by_goals == _result_category(Val(sc)[1], Val(sc)[2])
        actual ==
            IF period = "FT" /\ by_goals = "DRAW" /\ o.status_short = "PEN"
               /\ o.penalty_home # None /\ o.penalty_away # None
            THEN IF Val(o.penalty_home) > Val(o.penalty_away) THEN "HOME"
                 ELSE IF Val(o.penalty_home) < Val(o.penalty_away) THEN "AWAY"
                 ELSE by_goals
            ELSE by_goals
        pick == upper(s.pick)
    IN  IF sc = None THEN _r(s, P, "Missing " \o period \o " score data")
        ELSE IF pick \notin {"HOME", "DRAW", "AWAY"}
             THEN _r(s, NS, "Pick must be HOME, DRAW, or AWAY")
        ELSE _r(s, IF pick = actual THEN W ELSE L, period_label(period) \o " score=")

\* Mutant: the X2 entry of the table holds the sides of 1X.
valid_x2_swapped(pick) ==
    CASE pick = "1X" -> {"HOME", "DRAW"}
      [] pick = "X2" -> {"HOME", "DRAW"}
      [] pick = "12" -> {"HOME", "AWAY"}

\* valid[pick] of _eval_period_double_chance
valid(pick) ==
    CASE pick = "1X" -> {"HOME", "DRAW"}
      [] pick = "X2" -> {"DRAW", "AWAY"}
      [] pick = "12" -> {"HOME", "AWAY"}

_eval_period_double_chance(s, o, period) ==
    LET sc == _period_score(o, period)
        actual == _result_category(Val(sc)[1], Val(sc)[2])
        pick == upper(s.pick)
    IN  IF sc = None THEN _r(s, P, "Missing " \o period \o " score data")
        ELSE IF pick \notin {"1X", "X2", "12"}
             THEN _r(s, L, "Invalid DOUBLE_CHANCE pick. Use 1X, X2, 12.")
        ELSE _r(s, IF actual \in valid(pick) THEN W ELSE L, period \o " result: " \o actual)

\* Mutant: no push; a total equal to the line loses for both picks.
_eval_period_over_under_no_push(s, o, period) ==
    LET sc == _period_score(o, period)
        total == Val(sc)[1] + Val(sc)[2]
        pick == upper(s.pick)
    IN  IF sc = None THEN _r(s, P, "Missing " \o period \o " score data")
        ELSE IF s.line = None THEN _r(s, NS, "Requires line")
        ELSE IF pick = "OVER"
             THEN _r(s, IF GtLine(total, s.line) THEN W ELSE L, period \o " total, line")
        ELSE IF pick = "UNDER"
             THEN _r(s, IF LtLine(total, s.line) THEN W ELSE L, period \o " total, line")
        ELSE _r(s, NS, "Pick must be OVER or UNDER")

_eval_period_over_under(s, o, period) ==
    LET sc == _period_score(o, period)
        total == Val(sc)[1] + Val(sc)[2]
        pick == upper(s.pick)
    IN  IF sc = None THEN _r(s, P, "Missing " \o period \o " score data")
        ELSE IF s.line = None THEN _r(s, NS, "Requires line")
        ELSE IF EqLine(total, s.line) THEN _r(s, PUSH, period \o " total matched line")
        ELSE IF pick = "OVER"
             THEN _r(s, IF GtLine(total, s.line) THEN W ELSE L, period \o " total, line")
        ELSE IF pick = "UNDER"
             THEN _r(s, IF LtLine(total, s.line) THEN W ELSE L, period \o " total, line")
        ELSE _r(s, NS, "Pick must be OVER or UNDER")

\* Mutant: a level score loses instead of returning the stake.
_eval_period_draw_no_bet_level_loses(s, o, period) ==
    LET sc == _period_score(o, period)
        pick == upper(s.pick)
        actual == IF Val(sc)[1] > Val(sc)[2] THEN "HOME" ELSE "AWAY"
    IN  IF sc = None THEN _r(s, P, "Missing " \o period \o " score data")
        ELSE IF pick \notin {"HOME", "AWAY"} THEN _r(s, NS, "Pick must be HOME or AWAY")
        ELSE IF Val(sc)[1] = Val(sc)[2] THEN _r(s, L, period \o " draw: stake returned")
        ELSE _r(s, IF pick = actual THEN W ELSE L, period \o " result: " \o actual)

_eval_period_draw_no_bet(s, o, period) ==
    LET sc == _period_score(o, period)
        pick == upper(s.pick)
        actual == IF Val(sc)[1] > Val(sc)[2] THEN "HOME" ELSE "AWAY"
    IN  IF sc = None THEN _r(s, P, "Missing " \o period \o " score data")
        ELSE IF pick \notin {"HOME", "AWAY"} THEN _r(s, NS, "Pick must be HOME or AWAY")
        ELSE IF Val(sc)[1] = Val(sc)[2] THEN _r(s, PUSH, period \o " draw: stake returned")
        ELSE _r(s, IF pick = actual THEN W ELSE L, period \o " result: " \o actual)

\* Mutant: the line is always added to the home side.
_eval_period_asian_handicap_home_only(s, o, period) ==
    LET sc == _period_score(o, period)
        pick == upper(s.pick)
        h == Val(sc)[1] * LineScale + Val(s.line)
        a == Val(sc)[2] * LineScale
    IN  IF sc = None THEN _r(s, P, "Missing " \o period \o " score data")
        ELSE IF s.line = None THEN _r(s, NS, "Requires line")
        ELSE IF pick \notin {"HOME", "AWAY"} THEN _r(s, NS, "Pick must be HOME or AWAY")
        ELSE IF h = a THEN _r(s, PUSH, "Adjusted score tied")
        ELSE _r(s, IF (IF pick = "HOME" THEN h > a ELSE a > h) THEN W ELSE L,
                "Adjusted score home, away")

\* The adjusted scores h and a are held in 1/LineScale units
_eval_period_asian_handicap(s, o, period) ==
    LET sc == _period_score(o, period)
        pick == upper(s.pick)
        h == IF pick = "HOME" THEN Val(sc)[1] * LineScale + Val(s.line)
             ELSE Val(sc)[1] * LineScale
        a == IF pick = "HOME" THEN Val(sc)[2] * LineScale
             ELSE Val(sc)[2] * LineScale + Val(s.line)
    IN  IF sc = None THEN _r(s, P, "Missing " \o period \o " score data")
        ELSE IF s.line = None THEN _r(s, NS, "Requires line")
        ELSE IF pick \notin {"HOME", "AWAY"} THEN _r(s, NS, "Pick must be HOME or AWAY")
        ELSE IF h = a THEN _r(s, PUSH, "Adjusted score tied")
        ELSE _r(s, IF (IF pick = "HOME" THEN h > a ELSE a > h) THEN W ELSE L,
                "Adjusted score home, away")

----------------------------------------------------------------------------
(* evaluator.py: full-time, half-time and second-half evaluators *)

_result_asian_handicap(s, o) == _eval_period_asian_handicap(s, o, "FT")
_result_ht_asian_handicap(s, o) == _eval_period_asian_handicap(s, o, "HT")

_result_draw_no_bet(s, o) == _eval_period_draw_no_bet(s, o, "FT")
_result_ht_draw_no_bet(s, o) == _eval_period_draw_no_bet(s, o, "HT")
_result_2h_draw_no_bet(s, o) == _eval_period_draw_no_bet(s, o, "2H")

_result_match_winner(s, o) == _eval_period_match_winner(s, o, "FT")
_result_double_chance(s, o) == _eval_period_double_chance(s, o, "FT")
_result_over_under(s, o) == _eval_period_over_under(s, o, "FT")

_result_ht_match_winner(s, o) == _eval_period_match_winner(s, o, "HT")
_result_ht_over_under(s, o) == _eval_period_over_under(s, o, "HT")
_result_ht_double_chance(s, o) == _eval_period_double_chance(s, o, "HT")

_result_2h_match_winner(s, o) == _eval_period_match_winner(s, o, "2H")
_result_2h_over_under(s, o) == _eval_period_over_under(s, o, "2H")
_result_2h_double_chance(s, o) == _eval_period_double_chance(s, o, "2H")

----------------------------------------------------------------------------
(* evaluator.py: standalone score-based evaluators *)

_result_team_over_under(s, o) ==
    LET team == upper(Or(s.team, ""))
        goals == IF team = "HOME" THEN Val(o.home_goals) ELSE Val(o.away_goals)
        pick == upper(s.pick)
    IN  IF o.home_goals = None \/ o.away_goals = None THEN Raised("AssertionError")
        ELSE IF s.line = None THEN _r(s, NS, "Requires line")
        ELSE IF team \notin {"HOME", "AWAY"}
             THEN _r(s, NS, "Requires team=HOME or team=AWAY")
        ELSE IF EqLine(goals, s.line) THEN _r(s, PUSH, "Team goals matched line")
        ELSE IF pick = "OVER"
             THEN _r(s, IF GtLine(goals, s.line) THEN W ELSE L, "Team, goals, line")
        ELSE IF pick = "UNDER"
             THEN _r(s, IF LtLine(goals, s.line) THEN W ELSE L, "Team, goals, line")
        ELSE _r(s, NS, "Pick must be OVER or UNDER")

\* Mutant: the adjusted score level is a push, as in the asian handicap.
_result_handicap_result_with_push(s, o) ==
    LET pick == upper(s.pick)
        adjusted_home == Val(o.home_goals) * LineScale + Val(s.line)
        actual == _result_category(adjusted_home, Val(o.away_goals) * LineScale)
    IN  IF o.home_goals = None \/ o.away_goals = None THEN Raised("AssertionError")
        ELSE IF s.line = None THEN _r(s, NS, "Requires line")
        ELSE IF pick \notin {"HOME", "DRAW", "AWAY"}
             THEN _r(s, NS, "Pick must be HOME, DRAW, or AWAY")
        ELSE IF actual = "DRAW" THEN _r(s, PUSH, "Adjusted home, away")
        ELSE _r(s, IF pick = actual THEN W ELSE L, "Adjusted home, away")

\* adjusted_home and the away goals are compared in 1/LineScale units
_result_handicap_result(s, o) ==
    LET pick == upper(s.pick)
        adjusted_home == Val(o.home_goals) * LineScale + Val(s.line)
        actual == _result_category(adjusted_home, Val(o.away_goals) * LineScale)
    IN  IF o.home_goals = None \/ o.away_goals = None THEN Raised("AssertionError")
        ELSE IF s.line = None THEN _r(s, NS, "Requires line")
        ELSE IF pick \notin {"HOME", "DRAW", "AWAY"}
             THEN _r(s, NS, "Pick must be HOME, DRAW, or AWAY")
        ELSE _r(s, IF pick = actual THEN W ELSE L, "Adjusted home, away")

----------------------------------------------------------------------------
(* evaluator.py: statistics-based evaluators *)

_settle_ou(s, value, label) ==
    LET pick == upper(s.pick) IN
    IF value = None THEN _r(s, P, "Missing statistics for " \o label)
    ELSE IF s.line = None THEN _r(s, NS, "Requires line")
    ELSE IF EqLine(Val(value), s.line) THEN _r(s, PUSH, label \o " matched line")
    ELSE IF pick = "OVER"
         THEN _r(s, IF GtLine(Val(value), s.line) THEN W ELSE L, label \o ", line")
    ELSE IF pick = "UNDER"
         THEN _r(s, IF LtLine(Val(value), s.line) THEN W ELSE L, label \o ", line")
    ELSE _r(s, NS, "Pick must be OVER or UNDER")

_team_value(st, team, home_attr, away_attr) ==
    IF team = "HOME" THEN st[home_attr] ELSE st[away_attr]

_total_value(st, home_attr, away_attr) ==
    LET h == st[home_attr]
        a == st[away_attr]
    IN  IF h = None \/ a = None THEN None ELSE Some(Val(h) + Val(a))

\* The evaluators take Optional[FixtureStatistics]: stx is None or Some(stats)

_result_corners_over_under(s, stx) ==
    IF stx = None THEN _r(s, P, "Missing fixture statistics")
    ELSE _settle_ou(s, _total_value(Val(stx), "corners_home", "corners_away"), "Total corners")

_result_team_corners_over_under(s, stx) ==
    LET team == upper(Or(s.team, "")) IN
    IF stx = None THEN _r(s, P, "Missing fixture statistics")
    ELSE IF team \notin {"HOME", "AWAY"} THEN _r(s, NS, "Requires team=HOME or team=AWAY")
    ELSE _settle_ou(s, _team_value(Val(stx), team, "corners_home", "corners_away"),
                    team \o " corners")

_result_cards_over_under(s, stx) ==
    LET st == Val(stx)
        vals == <<st.yellow_home, st.yellow_away, st.red_home, st.red_away>>
        total == IF \A k \in 1..4 : vals[k] # None
                 THEN Some(Val(vals[1]) + Val(vals[2]) + Val(vals[3]) + Val(vals[4]))
                 ELSE None
    IN  IF stx = None THEN _r(s, P, "Missing fixture statistics")
        ELSE _settle_ou(s, total, "Total cards")

_result_team_cards_over_under(s, stx) ==
    LET st == Val(stx)
        team == upper(Or(s.team, ""))
        yellow == IF team = "HOME" THEN st.yellow_home ELSE st.yellow_away
        red == IF team = "HOME" THEN st.red_home ELSE st.red_away
        value == IF yellow = None \/ red = None THEN None
                 ELSE Some(Val(yellow) + Val(red))
    IN  IF stx = None THEN _r(s, P, "Missing fixture statistics")
        ELSE IF team \notin {"HOME", "AWAY"}
             THEN _r(s, NS, "Requires team=HOME or team=AWAY")
        ELSE _settle_ou(s, value, team \o " cards")

_result_shots_over_under(s, stx) ==
    IF stx = None THEN _r(s, P, "Missing fixture statistics")
    ELSE _settle_ou(s, _total_value(Val(stx), "shots_home", "shots_away"), "Total shots")

_result_shots_on_target_over_under(s, stx) ==
    IF stx = None THEN _r(s, P, "Missing fixture statistics")
    ELSE _settle_ou(s, _total_value(Val(stx), "shots_on_target_home", "shots_on_target_away"),
                    "Shots on target")

_result_fouls_over_under(s, stx) ==
    IF stx = None THEN _r(s, P, "Missing fixture statistics")
    ELSE _settle_ou(s, _total_value(Val(stx), "fouls_home", "fouls_away"), "Total fouls")

_result_offsides_over_under(s, stx) ==
    IF stx = None THEN _r(s, P, "Missing fixture statistics")
    ELSE _settle_ou(s, _total_value(Val(stx), "offsides_home", "offsides_away"),
                    "Total offsides")

----------------------------------------------------------------------------
(* evaluator.py: period helpers, continued *)

_eval_period_btts(s, o, period) ==
    LET sc == _period_score(o, period) IN
    IF sc = None THEN _r(s, P, "Missing " \o period \o " score data")
    ELSE LET btts == Val(sc)[1] > 0 /\ Val(sc)[2] > 0
             pick == upper(s.pick)
         IN  IF pick \notin {"YES", "NO"} THEN _r(s, NS, "Pick must be YES or NO")
             ELSE IF (pick = "YES" /\ btts) \/ (pick = "NO" /\ ~btts)
                  THEN _r(s, W, period \o " goals")
                  ELSE _r(s, L, period \o " goals")

_eval_period_odd_even(s, o, period) ==
    LET sc == _period_score(o, period) IN
    IF sc = None THEN _r(s, P, "Missing " \o period \o " score data")
    ELSE LET total == Val(sc)[1] + Val(sc)[2]
             actual == IF total % 2 = 0 THEN "EVEN" ELSE "ODD"
             pick == upper(s.pick)
         IN  IF pick \notin {"ODD", "EVEN"} THEN _r(s, NS, "Pick must be ODD or EVEN")
             ELSE _r(s, IF pick = actual THEN W ELSE L, period \o " total")

_eval_period_correct_score(s, o, period) ==
    LET sc == _period_score(o, period) IN
    IF sc = None THEN _r(s, P, "Missing " \o period \o " score data")
    ELSE LET pick == replace_char(strip(s.pick), "-", ":")
             parts == split(pick, ":")
         IN  IF Len(parts) # 2 \/ ~(\A k \in 1..Len(parts) : isdigit(parts[k]))
             THEN _r(s, NS, "Pick must be in H:A format, e.g. 2:1")
             ELSE IF int(parts[1]) = None THEN Raised("ValueError")
             ELSE IF Val(int(parts[1])) # Val(sc)[1] THEN _r(s, L, period \o " score")
             ELSE IF int(parts[2]) = None THEN Raised("ValueError")
             ELSE _r(s, IF Val(int(parts[2])) = Val(sc)[2] THEN W ELSE L, period \o " score")

_result_btts(s, o) == _eval_period_btts(s, o, "FT")
_result_odd_even(s, o) == _eval_period_odd_even(s, o, "FT")
_result_correct_score(s, o) == _eval_period_correct_score(s, o, "FT")

_result_ht_btts(s, o) == _eval_period_btts(s, o, "HT")
_result_ht_odd_even(s, o) == _eval_period_odd_even(s, o, "HT")
_result_ht_correct_score(s, o) == _eval_period_correct_score(s, o, "HT")

_result_2h_btts(s, o) == _eval_period_btts(s, o, "2H")
_result_2h_odd_even(s, o) == _eval_period_odd_even(s, o, "2H")
_result_2h_correct_score(s, o) == _eval_period_correct_score(s, o, "2H")

----------------------------------------------------------------------------
(* evaluator.py: standalone full-time evaluators *)

\* assert o.home_goals is not None and o.away_goals is not None
GoalsAsserted(o) == o.home_goals # None /\ o.away_goals # None

_result_clean_sheet(s, o) ==
    IF ~GoalsAsserted(o) THEN Raised("AssertionError")
    ELSE LET team == upper(Or(s.team, ""))
             pick == upper(s.pick)
             clean == IF team = "HOME" THEN Val(o.away_goals) = 0 ELSE Val(o.home_goals) = 0
         IN  IF team \notin {"HOME", "AWAY"} THEN _r(s, NS, "Requires team=HOME or team=AWAY")
             ELSE IF pick \notin {"YES", "NO"} THEN _r(s, NS, "Pick must be YES or NO")
             ELSE _r(s, IF (pick = "YES" /\ clean) \/ (pick = "NO" /\ ~clean) THEN W ELSE L, "Score")

_result_win_to_nil(s, o) ==
    IF ~GoalsAsserted(o) THEN Raised("AssertionError")
    ELSE LET pick == upper(s.pick)
             h == Val(o.home_goals)
             a == Val(o.away_goals)
         IN  IF pick \notin {"HOME", "AWAY"} THEN _r(s, NS, "Pick must be HOME or AWAY")
             ELSE IF pick = "HOME" THEN _r(s, IF h > 0 /\ a = 0 THEN W ELSE L, "Score")
             ELSE _r(s, IF a > 0 /\ h = 0 THEN W ELSE L, "Score")

\* The body shared by EXACT_GOALS and TEAM_EXACT_GOALS: "N+" is a threshold,
\* "N" an exact count, anything int() rejects is NOT_SUPPORTED
exact_or_threshold(s, count, pick, reason) ==
    IF endswith(pick, "+")
    THEN LET threshold == int(SubSeq(pick, 1, Len(pick) - 1)) IN
         IF threshold = None THEN _r(s, NS, "Cannot parse pick")
         ELSE _r(s, IF count >= Val(threshold) THEN W ELSE L, reason)
    ELSE LET target == int(pick) IN
         IF target = None THEN _r(s, NS, "Cannot parse pick")
         ELSE _r(s, IF count = Val(target) THEN W ELSE L, reason)

_result_exact_goals(s, o) ==
    IF ~GoalsAsserted(o) THEN Raised("AssertionError")
    ELSE exact_or_threshold(s, Val(o.home_goals) + Val(o.away_goals), strip(s.pick), "Total goals")

_result_team_exact_goals(s, o) ==
    IF ~GoalsAsserted(o) THEN Raised("AssertionError")
    ELSE LET team == upper(Or(s.team, "")) IN
         IF team \notin {"HOME", "AWAY"} THEN _r(s, NS, "Requires team=HOME or team=AWAY")
         ELSE exact_or_threshold(s, IF team = "HOME" THEN Val(o.home_goals) ELSE Val(o.away_goals),
                                 strip(s.pick), "Team goals")

_result_multi_goals(s, o) ==
    IF ~GoalsAsserted(o) THEN Raised("AssertionError")
    ELSE LET total == Val(o.home_goals) + Val(o.away_goals)
             pick == strip(s.pick)
             parts == split(pick, "-")
         IN  IF endswith(pick, "+")
             THEN LET low == int(SubSeq(pick, 1, Len(pick) - 1)) IN
                  IF low = None THEN _r(s, NS, "Cannot parse pick")
                  ELSE _r(s, IF total >= Val(low) THEN W ELSE L, "Total goals")
             ELSE IF Contains(pick, "-")
             THEN IF Len(parts) # 2 THEN _r(s, NS, "Cannot parse pick")
                  ELSE IF int(parts[1]) = None \/ int(parts[2]) = None
                       THEN _r(s, NS, "Cannot parse pick")
                  ELSE _r(s, IF Val(int(parts[1])) <= total /\ total <= Val(int(parts[2]))
                             THEN W ELSE L, "Total goals")
             ELSE _r(s, NS, "Cannot parse pick. Use range (e.g. 2-3) or threshold (e.g. 4+)")

label_map == {<<"1", "HOME">>, <<"X", "DRAW">>, <<"2", "AWAY">>,
              <<"HOME", "HOME">>, <<"DRAW", "DRAW">>, <<"AWAY", "AWAY">>}

btts_map == {<<"YES", TRUE>>, <<"GG", TRUE>>, <<"NO", FALSE>>, <<"NG", FALSE>>}

ou_map == {<<"OVER", "OVER">>, <<"O", "OVER">>, <<"UNDER", "UNDER">>, <<"U", "UNDER">>}

_result_ht_ft(s, o) ==
    LET ht == _halftime_score(o)
        ft == _fulltime_score(o)
        parts == split(replace_char(upper(strip(s.pick)), "-", "/"), "/")
    IN  IF ht = None \/ ft = None THEN _r(s, P, "Missing halftime/fulltime score data")
        ELSE IF Len(parts) # 2 THEN _r(s, NS, "HT_FT pick must be in HT/FT form, e.g. HOME/DRAW")
        ELSE IF parts[1] \notin Keys(label_map) \/ parts[2] \notin Keys(label_map)
             THEN _r(s, NS, "HT_FT pick tokens must be HOME/DRAW/AWAY (or 1/X/2)")
        ELSE LET expected == Lookup(label_map, parts[1]) \o "/" \o Lookup(label_map, parts[2])
                 actual == _result_category(Val(ht)[1], Val(ht)[2]) \o "/"
                           \o _result_category(Val(ft)[1], Val(ft)[2])
             IN  _r(s, IF expected = actual THEN W ELSE L, "Actual HT/FT=" \o actual)

_result_result_btts(s, o) ==
    IF ~GoalsAsserted(o) THEN Raised("AssertionError")
    ELSE LET parts == split(replace_char(upper(strip(s.pick)), "-", "/"), "/")
             h == Val(o.home_goals)
             a == Val(o.away_goals)
         IN  IF Len(parts) # 2 THEN _r(s, NS, "Pick must be RESULT/BTTS, e.g. HOME/YES")
             ELSE IF parts[1] \notin Keys(label_map) THEN _r(s, NS, "Unknown result token")
             ELSE IF parts[2] \notin Keys(btts_map) THEN _r(s, NS, "Unknown BTTS token")
             ELSE LET result_ok == Lookup(label_map, parts[1]) = _result_category(h, a)
                      btts_ok == Lookup(btts_map, parts[2]) = (h > 0 /\ a > 0)
                  IN  _r(s, IF result_ok /\ btts_ok THEN W ELSE L, "Result, BTTS")

_result_result_over_under(s, o) ==
    IF ~GoalsAsserted(o) THEN Raised("AssertionError")
    ELSE LET parts == split(replace_char(upper(strip(s.pick)), "-", "/"), "/")
             h == Val(o.home_goals)
             a == Val(o.away_goals)
         IN  IF s.line = None THEN _r(s, NS, "Requires line")
             ELSE IF Len(parts) # 2 THEN _r(s, NS, "Pick must be RESULT/OU, e.g. HOME/OVER")
             ELSE IF parts[1] \notin Keys(label_map) \/ parts[2] \notin Keys(ou_map)
                  THEN _r(s, NS, "Cannot parse pick")
             ELSE LET result_ok == Lookup(label_map, parts[1]) = _result_category(h, a)
                      ou_ok == IF Lookup(ou_map, parts[2]) = "OVER"
                               THEN GtLine(h + a, s.line) ELSE LtLine(h + a, s.line)
                  IN  _r(s, IF result_ok /\ ou_ok THEN W ELSE L, "Result, Total, line")

_result_margin_of_victory(s, o) ==
    IF ~GoalsAsserted(o) THEN Raised("AssertionError")
    ELSE LET diff == Val(o.home_goals) - Val(o.away_goals)
             pick == upper(strip(s.pick))
             parts == split(replace_char(pick, " ", ":"), ":")
         IN  IF pick = "DRAW" THEN _r(s, IF diff = 0 THEN W ELSE L, "Score")
             ELSE IF Len(parts) # 2
                  THEN _r(s, NS, "Pick must be DRAW or TEAM:N (e.g. HOME:2, AWAY:3+)")
             ELSE IF parts[1] \notin {"HOME", "AWAY"} THEN _r(s, NS, "Team token must be HOME or AWAY")
             ELSE exact_or_threshold(s, IF parts[1] = "HOME" THEN diff ELSE -diff, parts[2], "Score, margin")

_result_first_team_to_score(s, o) ==
    LET pick == upper(s.pick) IN
    IF pick \notin {"HOME", "AWAY", "NONE"} THEN _r(s, NS, "Pick must be HOME, AWAY, or NONE")
    ELSE IF o.first_to_score = None THEN _r(s, P, "Missing goal-event data")
    ELSE _r(s, IF pick = Val(o.first_to_score) THEN W ELSE L, "First scorer")

_result_last_team_to_score(s, o) ==
    LET pick == upper(s.pick) IN
    IF pick \notin {"HOME", "AWAY", "NONE"} THEN _r(s, NS, "Pick must be HOME, AWAY, or NONE")
    ELSE IF o.last_to_score = None THEN _r(s, P, "Missing goal-event data")
    ELSE _r(s, IF pick = Val(o.last_to_score) THEN W ELSE L, "Last scorer")

----------------------------------------------------------------------------
(* evaluator.py: cross-half markets *)

_result_to_score_in_both_halves(s, o) ==
    LET ht == _halftime_score(o)
        sh == _second_half_score(o)
        team == upper(Or(s.team, ""))
        pick == upper(s.pick)
    IN  IF ht = None \/ sh = None THEN _r(s, P, "Missing period score data")
        ELSE IF team \notin {"HOME", "AWAY"} THEN _r(s, NS, "Requires team=HOME or team=AWAY")
        ELSE IF pick \notin {"YES", "NO"} THEN _r(s, NS, "Pick must be YES or NO")
        ELSE LET scored_both == IF team = "HOME"
                                THEN Val(ht)[1] > 0 /\ Val(sh)[1] > 0
                                ELSE Val(ht)[2] > 0 /\ Val(sh)[2] > 0
             IN  _r(s, IF (pick = "YES" /\ scored_both) \/ (pick = "NO" /\ ~scored_both)
                       THEN W ELSE L, "HT, 2H")

\* Mutant: the side has to outscore the other in both halves.
_result_to_win_either_half_needs_both(s, o) ==
    LET ht == _halftime_score(o)
        sh == _second_half_score(o)
        pick == upper(s.pick)
    IN  IF ht = None \/ sh = None THEN _r(s, P, "Missing period score data")
        ELSE IF pick \notin {"HOME", "AWAY"} THEN _r(s, NS, "Pick must be HOME or AWAY")
        ELSE IF pick = "HOME"
             THEN _r(s, IF Val(ht)[1] > Val(ht)[2] /\ Val(sh)[1] > Val(sh)[2] THEN W ELSE L, "HT, 2H")
        ELSE _r(s, IF Val(ht)[2] > Val(ht)[1] /\ Val(sh)[2] > Val(sh)[1] THEN W ELSE L, "HT, 2H")

_result_to_win_either_half(s, o) ==
    LET ht == _halftime_score(o)
        sh == _second_half_score(o)
        pick == upper(s.pick)
    IN  IF ht = None \/ sh = None THEN _r(s, P, "Missing period score data")
        ELSE IF pick \notin {"HOME", "AWAY"} THEN _r(s, NS, "Pick must be HOME or AWAY")
        ELSE IF pick = "HOME"
             THEN _r(s, IF Val(ht)[1] > Val(ht)[2] \/ Val(sh)[1] > Val(sh)[2] THEN W ELSE L, "HT, 2H")
        ELSE _r(s, IF Val(ht)[2] > Val(ht)[1] \/ Val(sh)[2] > Val(sh)[1] THEN W ELSE L, "HT, 2H")

_result_to_win_both_halves(s, o) ==
    LET ht == _halftime_score(o)
        sh == _second_half_score(o)
        pick == upper(s.pick)
    IN  IF ht = None \/ sh = None THEN _r(s, P, "Missing period score data")
        ELSE IF pick \notin {"HOME", "AWAY"} THEN _r(s, NS, "Pick must be HOME or AWAY")
        ELSE IF pick = "HOME"
             THEN _r(s, IF Val(ht)[1] > Val(ht)[2] /\ Val(sh)[1] > Val(sh)[2] THEN W ELSE L, "HT, 2H")
        ELSE _r(s, IF Val(ht)[2] > Val(ht)[1] /\ Val(sh)[2] > Val(sh)[1] THEN W ELSE L, "HT, 2H")

half_norm == {<<"1ST", "FIRST">>, <<"2ND", "SECOND">>, <<"TIE", "EQUAL">>}

_result_highest_scoring_half(s, o) ==
    LET ht == _halftime_score(o)
        sh == _second_half_score(o)
        pick == upper(s.pick)
    IN  IF ht = None \/ sh = None THEN _r(s, P, "Missing period score data")
        ELSE LET ht_total == Val(ht)[1] + Val(ht)[2]
                 sh_total == Val(sh)[1] + Val(sh)[2]
                 actual == IF ht_total > sh_total THEN "FIRST"
                           ELSE IF sh_total > ht_total THEN "SECOND" ELSE "EQUAL"
                 norm == Or(Get(half_norm, pick), pick)
             IN  IF pick \notin {"FIRST", "SECOND", "EQUAL", "1ST", "2ND", "TIE"}
                 THEN _r(s, NS, "Pick must be FIRST, SECOND, or EQUAL")
                 ELSE _r(s, IF norm = actual THEN W ELSE L, "HT total, 2H total")

\* Mutant: a half total equal to the line returns the stake.
_result_both_halves_over_under_with_push(s, o) ==
    LET ht == _halftime_score(o)
        sh == _second_half_score(o)
        pick == upper(s.pick)
    IN  IF ht = None \/ sh = None THEN _r(s, P, "Missing period score data")
        ELSE IF s.line = None THEN _r(s, NS, "Requires line")
        ELSE LET ht_total == Val(ht)[1] + Val(ht)[2]
                 sh_total == Val(sh)[1] + Val(sh)[2]
             IN  IF pick \notin {"OVER", "UNDER"} THEN _r(s, NS, "Pick must be OVER or UNDER")
                 ELSE IF EqLine(ht_total, s.line) \/ EqLine(sh_total, s.line)
                 THEN _r(s, PUSH, "HT total, 2H total, line")
                 ELSE IF pick = "OVER"
                 THEN _r(s, IF GtLine(ht_total, s.line) /\ GtLine(sh_total, s.line) THEN W ELSE L,
                         "HT total, 2H total, line")
                 ELSE _r(s, IF LtLine(ht_total, s.line) /\ LtLine(sh_total, s.line) THEN W ELSE L,
                         "HT total, 2H total, line")

_result_both_halves_over_under(s, o) ==
    LET ht == _halftime_score(o)
        sh == _second_half_score(o)
        pick == upper(s.pick)
    IN  IF ht = None \/ sh = None THEN _r(s, P, "Missing period score data")
        ELSE IF s.line = None THEN _r(s, NS, "Requires line")
        ELSE LET ht_total == Val(ht)[1] + Val(ht)[2]
                 sh_total == Val(sh)[1] + Val(sh)[2]
             IN  IF pick = "OVER"
                 THEN _r(s, IF GtLine(ht_total, s.line) /\ GtLine(sh_total, s.line) THEN W ELSE L,
                         "HT total, 2H total, line")
                 ELSE IF pick = "UNDER"
                 THEN _r(s, IF LtLine(ht_total, s.line) /\ LtLine(sh_total, s.line) THEN W ELSE L,
                         "HT total, 2H total, line")
                 ELSE _r(s, NS, "Pick must be OVER or UNDER")
----------------------------------------------------------------------------
(* api_client.py: first and last team to score, from the match events *)

\* t in s
HasSubstring(s, t) == \E k \in 1..(Len(s) - Len(t) + 1) : SubSeq(s, k, k + Len(t) - 1) = t

\* One element of row["events"]; time.elapsed and time.extra may be null
Event(type, detail, elapsed, extra, team_id) ==
    [type |-> type, detail |-> detail, elapsed |-> elapsed, extra |-> extra, team_id |-> team_id]

\* x or 0
OrZero(x) == IF x = None THEN 0 ELSE Val(x)

\* The sort key of a goal event: (elapsed, extra)
Before(e, f) ==
    \/ OrZero(e.elapsed) < OrZero(f.elapsed)
    \/ OrZero(e.elapsed) = OrZero(f.elapsed) /\ OrZero(e.extra) < OrZero(f.extra)

\* lines 109-118: the events kept as goals
IsGoalEvent(ev) == upper(ev.type) = "GOAL" /\ ~HasSubstring(upper(ev.detail), "MISSED")

\* _parse_scorers: list.sort is stable, so among goals of equal (elapsed,
\* extra) the first of the list stays first and the last stays last
_parse_scorers(events, home_team_id, home_goals, away_goals) ==
    LET goal_events == SelectSeq(events, IsGoalEvent)
        n == Len(goal_events)
        side(ev) == IF ev.team_id = home_team_id THEN "HOME" ELSE "AWAY"
        first == CHOOSE k \in 1..n :
                    \A j \in 1..n : j # k =>
                        \/ Before(goal_events[k], goal_events[j])
                        \/ ~Before(goal_events[j], goal_events[k]) /\ k < j
        last == CHOOSE k \in 1..n :
                    \A j \in 1..n : j # k =>
                        \/ Before(goal_events[j], goal_events[k])
                        \/ ~Before(goal_events[k], goal_events[j]) /\ j < k
    IN  IF n = 0
        THEN IF home_goals # None /\ away_goals # None /\ Val(home_goals) = 0 /\ Val(away_goals) = 0
             THEN <<Some("NONE"), Some("NONE")>>
             ELSE <<None, None>>
        ELSE <<Some(side(goal_events[first])), Some(side(goal_events[last]))>>
----------------------------------------------------------------------------
(* evaluator.py: registry *)

MARKET_EVALUATORS_keys == {
    "MATCH_WINNER", "DOUBLE_CHANCE", "DRAW_NO_BET",
    "OVER_UNDER", "BTTS", "ODD_EVEN",
    "CORRECT_SCORE", "ASIAN_HANDICAP", "TEAM_OVER_UNDER",
    "EXACT_GOALS", "TEAM_EXACT_GOALS", "MULTI_GOALS",
    "HANDICAP_RESULT", "CLEAN_SHEET", "WIN_TO_NIL",
    "FIRST_TEAM_TO_SCORE", "LAST_TEAM_TO_SCORE", "RESULT_BTTS",
    "RESULT_OVER_UNDER", "MARGIN_OF_VICTORY", "HT_MATCH_WINNER",
    "HT_OVER_UNDER", "HT_BTTS", "HT_DOUBLE_CHANCE",
    "HT_DRAW_NO_BET", "HT_ODD_EVEN", "HT_CORRECT_SCORE",
    "HT_ASIAN_HANDICAP", "SECOND_HALF_MATCH_WINNER", "SECOND_HALF_OVER_UNDER",
    "SECOND_HALF_BTTS", "SECOND_HALF_DOUBLE_CHANCE", "SECOND_HALF_DRAW_NO_BET",
    "SECOND_HALF_ODD_EVEN", "SECOND_HALF_CORRECT_SCORE", "HT_FT",
    "TO_SCORE_IN_BOTH_HALVES", "TO_WIN_EITHER_HALF", "TO_WIN_BOTH_HALVES",
    "HIGHEST_SCORING_HALF", "BOTH_HALVES_OVER_UNDER"
}

STATS_MARKET_EVALUATORS_keys == {
    "CORNERS_OVER_UNDER", "TEAM_CORNERS_OVER_UNDER", "CARDS_OVER_UNDER",
    "TEAM_CARDS_OVER_UNDER", "SHOTS_OVER_UNDER", "SHOTS_ON_TARGET_OVER_UNDER",
    "FOULS_OVER_UNDER", "OFFSIDES_OVER_UNDER"
}

\* MARKET_EVALUATORS[market](s, o)
MARKET_EVALUATORS(market, s, o) ==
    CASE market = "MATCH_WINNER" -> _result_match_winner(s, o)
      [] market = "DOUBLE_CHANCE" -> _result_double_chance(s, o)
      [] market = "DRAW_NO_BET" -> _result_draw_no_bet(s, o)
      [] market = "HT_DRAW_NO_BET" -> _result_ht_draw_no_bet(s, o)
      [] market = "SECOND_HALF_DRAW_NO_BET" -> _result_2h_draw_no_bet(s, o)
      [] market = "OVER_UNDER" -> _result_over_under(s, o)
      [] market = "ASIAN_HANDICAP" -> _result_asian_handicap(s, o)
      [] market = "HT_ASIAN_HANDICAP" -> _result_ht_asian_handicap(s, o)
      [] market = "HANDICAP_RESULT" -> _result_handicap_result(s, o)
      [] market = "TEAM_OVER_UNDER" -> _result_team_over_under(s, o)
      [] market = "HT_MATCH_WINNER" -> _result_ht_match_winner(s, o)
      [] market = "HT_OVER_UNDER" -> _result_ht_over_under(s, o)
      [] market = "HT_DOUBLE_CHANCE" -> _result_ht_double_chance(s, o)
      [] market = "SECOND_HALF_MATCH_WINNER" -> _result_2h_match_winner(s, o)
      [] market = "SECOND_HALF_OVER_UNDER" -> _result_2h_over_under(s, o)
      [] market = "SECOND_HALF_DOUBLE_CHANCE" -> _result_2h_double_chance(s, o)
      [] market = "BTTS" -> _result_btts(s, o)
      [] market = "ODD_EVEN" -> _result_odd_even(s, o)
      [] market = "CORRECT_SCORE" -> _result_correct_score(s, o)
      [] market = "EXACT_GOALS" -> _result_exact_goals(s, o)
      [] market = "TEAM_EXACT_GOALS" -> _result_team_exact_goals(s, o)
      [] market = "MULTI_GOALS" -> _result_multi_goals(s, o)
      [] market = "CLEAN_SHEET" -> _result_clean_sheet(s, o)
      [] market = "WIN_TO_NIL" -> _result_win_to_nil(s, o)
      [] market = "FIRST_TEAM_TO_SCORE" -> _result_first_team_to_score(s, o)
      [] market = "LAST_TEAM_TO_SCORE" -> _result_last_team_to_score(s, o)
      [] market = "RESULT_BTTS" -> _result_result_btts(s, o)
      [] market = "RESULT_OVER_UNDER" -> _result_result_over_under(s, o)
      [] market = "MARGIN_OF_VICTORY" -> _result_margin_of_victory(s, o)
      [] market = "HT_BTTS" -> _result_ht_btts(s, o)
      [] market = "HT_ODD_EVEN" -> _result_ht_odd_even(s, o)
      [] market = "HT_CORRECT_SCORE" -> _result_ht_correct_score(s, o)
      [] market = "SECOND_HALF_BTTS" -> _result_2h_btts(s, o)
      [] market = "SECOND_HALF_ODD_EVEN" -> _result_2h_odd_even(s, o)
      [] market = "SECOND_HALF_CORRECT_SCORE" -> _result_2h_correct_score(s, o)
      [] market = "HT_FT" -> _result_ht_ft(s, o)
      [] market = "TO_SCORE_IN_BOTH_HALVES" -> _result_to_score_in_both_halves(s, o)
      [] market = "TO_WIN_EITHER_HALF" -> _result_to_win_either_half(s, o)
      [] market = "TO_WIN_BOTH_HALVES" -> _result_to_win_both_halves(s, o)
      [] market = "HIGHEST_SCORING_HALF" -> _result_highest_scoring_half(s, o)
      [] market = "BOTH_HALVES_OVER_UNDER" -> _result_both_halves_over_under(s, o)

\* STATS_MARKET_EVALUATORS[market](s, stx)
STATS_MARKET_EVALUATORS(market, s, stx) ==
    CASE market = "CORNERS_OVER_UNDER" -> _result_corners_over_under(s, stx)
      [] market = "TEAM_CORNERS_OVER_UNDER" -> _result_team_corners_over_under(s, stx)
      [] market = "CARDS_OVER_UNDER" -> _result_cards_over_under(s, stx)
      [] market = "TEAM_CARDS_OVER_UNDER" -> _result_team_cards_over_under(s, stx)
      [] market = "SHOTS_OVER_UNDER" -> _result_shots_over_under(s, stx)
      [] market = "SHOTS_ON_TARGET_OVER_UNDER" -> _result_shots_on_target_over_under(s, stx)
      [] market = "FOULS_OVER_UNDER" -> _result_fouls_over_under(s, stx)
      [] market = "OFFSIDES_OVER_UNDER" -> _result_offsides_over_under(s, stx)

STATS_MARKETS == STATS_MARKET_EVALUATORS_keys

----------------------------------------------------------------------------
(* evaluator.py: orchestration *)

\* Mutant: a market without an evaluator is settled as a match winner bet.
evaluate_selection_unknown_as_match_winner(selection, o) ==
    IF selection.market = UNMAPPED
    THEN _r(selection, NS, "Market is recognized but not yet implemented")
    ELSE IF o.home_goals = None \/ o.away_goals = None
         THEN _r(selection, P, "Missing goals data")
    ELSE IF selection.market \in MARKET_EVALUATORS_keys
         THEN MARKET_EVALUATORS(selection.market, selection, o)
    ELSE MARKET_EVALUATORS("MATCH_WINNER", selection, o)

evaluate_selection(selection, o) ==
    IF selection.market = UNMAPPED
    THEN _r(selection, NS, "Market is recognized but not yet implemented")
    ELSE IF o.home_goals = None \/ o.away_goals = None
         THEN _r(selection, P, "Missing goals data")
    ELSE IF selection.market \in MARKET_EVALUATORS_keys
         THEN MARKET_EVALUATORS(selection.market, selection, o)
    ELSE _r(selection, NS, "Unsupported market " \o selection.market)

evaluate_stats_selection(selection, stx) ==
    IF selection.market = UNMAPPED
    THEN _r(selection, NS, "Statistics market is not yet implemented")
    ELSE IF selection.market \in STATS_MARKET_EVALUATORS_keys
         THEN STATS_MARKET_EVALUATORS(selection.market, selection, stx)
    ELSE _r(selection, NS, "Unsupported statistics market " \o selection.market)

----------------------------------------------------------------------------
(* service.py: market normalization *)

TableRowIn(fixture_id, market, pick, line, team) ==
    [fixture_id |-> fixture_id, market |-> market, pick |-> pick,
     line |-> line, team |-> team]

\* for ch in chars: key = key.replace(ch, r)
RECURSIVE replace_each(_, _, _)
replace_each(s, chars, r) ==
    IF s = "" THEN ""
    ELSE (IF Char(s, 1) \in chars THEN r ELSE Char(s, 1)) \o replace_each(Tail(s), chars, r)

\* while "__" in key: key = key.replace("__", "_")
RECURSIVE collapse_underscores(_)
collapse_underscores(s) ==
    IF Len(s) < 2 THEN s
    ELSE IF Char(s, 1) = "_" /\ Char(s, 2) = "_" THEN collapse_underscores(Tail(s))
    ELSE Char(s, 1) \o collapse_underscores(Tail(s))

MarketPunctuation == {"-", "/", " ", "(", ")", ".", ",", "?", "'"}


_MARKET_ALIASES == {
    <<"MATCH_WINNER", "MATCH_WINNER">>,
    <<"1X2", "MATCH_WINNER">>,
    <<"MONEYLINE", "MATCH_WINNER">>,
    <<"HOME_AWAY", "MATCH_WINNER">>,
    <<"FULL_TIME_RESULT", "MATCH_WINNER">>,
    <<"FT_RESULT", "MATCH_WINNER">>,
    <<"DOUBLE_CHANCE", "DOUBLE_CHANCE">>,
    <<"DC", "DOUBLE_CHANCE">>,
    <<"DRAW_NO_BET", "DRAW_NO_BET">>,
    <<"DNB", "DRAW_NO_BET">>,
    <<"OVER_UNDER", "OVER_UNDER">>,
    <<"GOALS_OVER_UNDER", "OVER_UNDER">>,
    <<"OU", "OVER_UNDER">>,
    <<"TOTAL_GOALS", "OVER_UNDER">>,
    <<"GOALS_OVER_UNDER_ALTERNATIVE", "OVER_UNDER">>,
    <<"BTTS", "BTTS">>,
    <<"BOTH_TEAMS_SCORE", "BTTS">>,
    <<"BOTH_TEAMS_TO_SCORE", "BTTS">>,
    <<"GGNG", "BTTS">>,
    <<"TEAM_OVER_UNDER", "TEAM_OVER_UNDER">>,
    <<"TEAM_TOTAL_GOALS", "TEAM_OVER_UNDER">>,
    <<"TOTAL_HOME", "TEAM_OVER_UNDER">>,
    <<"TOTAL_AWAY", "TEAM_OVER_UNDER">>,
    <<"HOME_TEAM_GOALS", "TEAM_OVER_UNDER">>,
    <<"AWAY_TEAM_GOALS", "TEAM_OVER_UNDER">>,
    <<"HOME_TEAM_OVER_UNDER", "TEAM_OVER_UNDER">>,
    <<"AWAY_TEAM_OVER_UNDER", "TEAM_OVER_UNDER">>,
    <<"EXACT_GOALS", "EXACT_GOALS">>,
    <<"EXACT_GOALS_NUMBER", "EXACT_GOALS">>,
    <<"TOTAL_GOALS_EXACT", "EXACT_GOALS">>,
    <<"TEAM_EXACT_GOALS", "TEAM_EXACT_GOALS">>,
    <<"HOME_TEAM_EXACT_GOALS", "TEAM_EXACT_GOALS">>,
    <<"AWAY_TEAM_EXACT_GOALS", "TEAM_EXACT_GOALS">>,
    <<"MULTI_GOALS", "MULTI_GOALS">>,
    <<"MULTIGOALS", "MULTI_GOALS">>,
    <<"TOTAL_GOALS_RANGE", "MULTI_GOALS">>,
    <<"ODD_EVEN", "ODD_EVEN">>,
    <<"CORRECT_SCORE", "CORRECT_SCORE">>,
    <<"EXACT_SCORE", "CORRECT_SCORE">>,
    <<"CS", "CORRECT_SCORE">>,
    <<"ASIAN_HANDICAP", "ASIAN_HANDICAP">>,
    <<"HANDICAP", "ASIAN_HANDICAP">>,
    <<"AH", "ASIAN_HANDICAP">>,
    <<"ASIAN_HANDICAP_ALTERNATIVE", "ASIAN_HANDICAP">>,
    <<"HANDICAP_RESULT", "HANDICAP_RESULT">>,
    <<"EUROPEAN_HANDICAP", "HANDICAP_RESULT">>,
    <<"3_WAY_HANDICAP", "HANDICAP_RESULT">>,
    <<"CLEAN_SHEET", "CLEAN_SHEET">>,
    <<"CLEAN_SHEET_HOME", "CLEAN_SHEET">>,
    <<"CLEAN_SHEET_AWAY", "CLEAN_SHEET">>,
    <<"HOME_CLEAN_SHEET", "CLEAN_SHEET">>,
    <<"AWAY_CLEAN_SHEET", "CLEAN_SHEET">>,
    <<"WIN_TO_NIL", "WIN_TO_NIL">>,
    <<"HOME_WIN_TO_NIL", "WIN_TO_NIL">>,
    <<"AWAY_WIN_TO_NIL", "WIN_TO_NIL">>,
    <<"WIN_TO_NIL_HOME", "WIN_TO_NIL">>,
    <<"WIN_TO_NIL_AWAY", "WIN_TO_NIL">>,
    <<"FIRST_TEAM_TO_SCORE", "FIRST_TEAM_TO_SCORE">>,
    <<"FIRST_GOAL", "FIRST_TEAM_TO_SCORE">>,
    <<"LAST_TEAM_TO_SCORE", "LAST_TEAM_TO_SCORE">>,
    <<"LAST_GOAL", "LAST_TEAM_TO_SCORE">>,
    <<"RESULT_BTTS", "RESULT_BTTS">>,
    <<"RESULT_BOTH_TEAMS_SCORE", "RESULT_BTTS">>,
    <<"RESULT_BOTH_TEAMS_TO_SCORE", "RESULT_BTTS">>,
    <<"MATCH_RESULT_AND_BTTS", "RESULT_BTTS">>,
    <<"RESULT_OVER_UNDER", "RESULT_OVER_UNDER">>,
    <<"RESULT_TOTAL_GOALS", "RESULT_OVER_UNDER">>,
    <<"HOME_AWAY_TOTAL", "RESULT_OVER_UNDER">>,
    <<"MATCH_RESULT_AND_TOTAL", "RESULT_OVER_UNDER">>,
    <<"MARGIN_OF_VICTORY", "MARGIN_OF_VICTORY">>,
    <<"WINNING_MARGIN", "MARGIN_OF_VICTORY">>,
    <<"HT_MATCH_WINNER", "HT_MATCH_WINNER">>,
    <<"HT_1X2", "HT_MATCH_WINNER">>,
    <<"1H_1X2", "HT_MATCH_WINNER">>,
    <<"FIRST_HALF_WINNER", "HT_MATCH_WINNER">>,
    <<"1ST_HALF_RESULT", "HT_MATCH_WINNER">>,
    <<"HT_OVER_UNDER", "HT_OVER_UNDER">>,
    <<"HT_OU", "HT_OVER_UNDER">>,
    <<"GOALS_OVER_UNDER_FIRST_HALF", "HT_OVER_UNDER">>,
    <<"FIRST_HALF_OVER_UNDER", "HT_OVER_UNDER">>,
    <<"HT_BTTS", "HT_BTTS">>,
    <<"BOTH_TEAMS_SCORE_FIRST_HALF", "HT_BTTS">>,
    <<"BOTH_TEAMS_TO_SCORE_FIRST_HALF", "HT_BTTS">>,
    <<"BTTS_FIRST_HALF", "HT_BTTS">>,
    <<"1H_BTTS", "HT_BTTS">>,
    <<"HT_DOUBLE_CHANCE", "HT_DOUBLE_CHANCE">>,
    <<"DOUBLE_CHANCE_FIRST_HALF", "HT_DOUBLE_CHANCE">>,
    <<"1H_DOUBLE_CHANCE", "HT_DOUBLE_CHANCE">>,
    <<"HT_DRAW_NO_BET", "HT_DRAW_NO_BET">>,
    <<"DRAW_NO_BET_1ST_HALF", "HT_DRAW_NO_BET">>,
    <<"DNB_1ST_HALF", "HT_DRAW_NO_BET">>,
    <<"1H_DNB", "HT_DRAW_NO_BET">>,
    <<"HT_ODD_EVEN", "HT_ODD_EVEN">>,
    <<"ODD_EVEN_FIRST_HALF", "HT_ODD_EVEN">>,
    <<"1H_ODD_EVEN", "HT_ODD_EVEN">>,
    <<"HT_CORRECT_SCORE", "HT_CORRECT_SCORE">>,
    <<"CORRECT_SCORE_FIRST_HALF", "HT_CORRECT_SCORE">>,
    <<"EXACT_SCORE_FIRST_HALF", "HT_CORRECT_SCORE">>,
    <<"HT_ASIAN_HANDICAP", "HT_ASIAN_HANDICAP">>,
    <<"ASIAN_HANDICAP_FIRST_HALF", "HT_ASIAN_HANDICAP">>,
    <<"1H_ASIAN_HANDICAP", "HT_ASIAN_HANDICAP">>,
    <<"SECOND_HALF_MATCH_WINNER", "SECOND_HALF_MATCH_WINNER">>,
    <<"2H_1X2", "SECOND_HALF_MATCH_WINNER">>,
    <<"2H_MATCH_WINNER", "SECOND_HALF_MATCH_WINNER">>,
    <<"SECOND_HALF_WINNER", "SECOND_HALF_MATCH_WINNER">>,
    <<"2ND_HALF_RESULT", "SECOND_HALF_MATCH_WINNER">>,
    <<"SECOND_HALF_OVER_UNDER", "SECOND_HALF_OVER_UNDER">>,
    <<"2H_OU", "SECOND_HALF_OVER_UNDER">>,
    <<"2H_OVER_UNDER", "SECOND_HALF_OVER_UNDER">>,
    <<"GOALS_OVER_UNDER_SECOND_HALF", "SECOND_HALF_OVER_UNDER">>,
    <<"SECOND_HALF_BTTS", "SECOND_HALF_BTTS">>,
    <<"2H_BTTS", "SECOND_HALF_BTTS">>,
    <<"BOTH_TEAMS_SCORE_SECOND_HALF", "SECOND_HALF_BTTS">>,
    <<"BOTH_TEAMS_TO_SCORE_SECOND_HALF", "SECOND_HALF_BTTS">>,
    <<"BTTS_SECOND_HALF", "SECOND_HALF_BTTS">>,
    <<"SECOND_HALF_DOUBLE_CHANCE", "SECOND_HALF_DOUBLE_CHANCE">>,
    <<"2H_DOUBLE_CHANCE", "SECOND_HALF_DOUBLE_CHANCE">>,
    <<"DOUBLE_CHANCE_SECOND_HALF", "SECOND_HALF_DOUBLE_CHANCE">>,
    <<"SECOND_HALF_DRAW_NO_BET", "SECOND_HALF_DRAW_NO_BET">>,
    <<"2H_DNB", "SECOND_HALF_DRAW_NO_BET">>,
    <<"DRAW_NO_BET_2ND_HALF", "SECOND_HALF_DRAW_NO_BET">>,
    <<"DNB_2ND_HALF", "SECOND_HALF_DRAW_NO_BET">>,
    <<"SECOND_HALF_ODD_EVEN", "SECOND_HALF_ODD_EVEN">>,
    <<"2H_ODD_EVEN", "SECOND_HALF_ODD_EVEN">>,
    <<"ODD_EVEN_SECOND_HALF", "SECOND_HALF_ODD_EVEN">>,
    <<"SECOND_HALF_CORRECT_SCORE", "SECOND_HALF_CORRECT_SCORE">>,
    <<"2H_CORRECT_SCORE", "SECOND_HALF_CORRECT_SCORE">>,
    <<"CORRECT_SCORE_SECOND_HALF", "SECOND_HALF_CORRECT_SCORE">>,
    <<"EXACT_SCORE_SECOND_HALF", "SECOND_HALF_CORRECT_SCORE">>,
    <<"HT_FT", "HT_FT">>,
    <<"HTFT", "HT_FT">>,
    <<"HT_FT_DOUBLE", "HT_FT">>,
    <<"HALF_TIME_FULL_TIME", "HT_FT">>,
    <<"TO_SCORE_IN_BOTH_HALVES", "TO_SCORE_IN_BOTH_HALVES">>,
    <<"SCORE_BOTH_HALVES_BY_TEAMS", "TO_SCORE_IN_BOTH_HALVES">>,
    <<"TEAM_TO_SCORE_IN_BOTH_HALVES", "TO_SCORE_IN_BOTH_HALVES">>,
    <<"SCORE_IN_BOTH_HALVES", "TO_SCORE_IN_BOTH_HALVES">>,
    <<"TO_WIN_EITHER_HALF", "TO_WIN_EITHER_HALF">>,
    <<"WIN_EITHER_HALF", "TO_WIN_EITHER_HALF">>,
    <<"TO_WIN_BOTH_HALVES", "TO_WIN_BOTH_HALVES">>,
    <<"WIN_BOTH_HALVES", "TO_WIN_BOTH_HALVES">>,
    <<"HIGHEST_SCORING_HALF", "HIGHEST_SCORING_HALF">>,
    <<"HIGHEST_SCORING_HALF_HOME", "HIGHEST_SCORING_HALF">>,
    <<"HIGHEST_SCORING_HALF_AWAY", "HIGHEST_SCORING_HALF">>,
    <<"BOTH_HALVES_OVER_UNDER", "BOTH_HALVES_OVER_UNDER">>,
    <<"BOTH_HALVES_OVER", "BOTH_HALVES_OVER_UNDER">>,
    <<"BOTH_HALVES_UNDER", "BOTH_HALVES_OVER_UNDER">>,
    <<"CORNERS_OVER_UNDER", "CORNERS_OVER_UNDER">>,
    <<"TOTAL_CORNERS", "CORNERS_OVER_UNDER">>,
    <<"CORNERS_OU", "CORNERS_OVER_UNDER">>,
    <<"CORNERS_OVER_UNDER_FIRST_HALF", "CORNERS_OVER_UNDER">>,
    <<"TEAM_CORNERS_OVER_UNDER", "TEAM_CORNERS_OVER_UNDER">>,
    <<"TEAM_CORNERS_OU", "TEAM_CORNERS_OVER_UNDER">>,
    <<"HOME_CORNERS_OVER_UNDER", "TEAM_CORNERS_OVER_UNDER">>,
    <<"AWAY_CORNERS_OVER_UNDER", "TEAM_CORNERS_OVER_UNDER">>,
    <<"HOME_TOTAL_CORNERS", "TEAM_CORNERS_OVER_UNDER">>,
    <<"AWAY_TOTAL_CORNERS", "TEAM_CORNERS_OVER_UNDER">>,
    <<"HOME_TEAM_TOTAL_CORNERS", "TEAM_CORNERS_OVER_UNDER">>,
    <<"AWAY_TEAM_TOTAL_CORNERS", "TEAM_CORNERS_OVER_UNDER">>,
    <<"CARDS_OVER_UNDER", "CARDS_OVER_UNDER">>,
    <<"CARDS_OU", "CARDS_OVER_UNDER">>,
    <<"YELLOW_OVER_UNDER", "CARDS_OVER_UNDER">>,
    <<"RED_CARDS_OVER_UNDER", "CARDS_OVER_UNDER">>,
    <<"TOTAL_CARDS", "CARDS_OVER_UNDER">>,
    <<"TEAM_CARDS_OVER_UNDER", "TEAM_CARDS_OVER_UNDER">>,
    <<"TEAM_CARDS_OU", "TEAM_CARDS_OVER_UNDER">>,
    <<"HOME_TEAM_TOTAL_CARDS", "TEAM_CARDS_OVER_UNDER">>,
    <<"AWAY_TEAM_TOTAL_CARDS", "TEAM_CARDS_OVER_UNDER">>,
    <<"HOME_TEAM_YELLOW_CARDS", "TEAM_CARDS_OVER_UNDER">>,
    <<"AWAY_TEAM_YELLOW_CARDS", "TEAM_CARDS_OVER_UNDER">>,
    <<"SHOTS_OVER_UNDER", "SHOTS_OVER_UNDER">>,
    <<"TOTAL_SHOTS", "SHOTS_OVER_UNDER">>,
    <<"SHOTS_OU", "SHOTS_OVER_UNDER">>,
    <<"SHOTS_ON_TARGET_OVER_UNDER", "SHOTS_ON_TARGET_OVER_UNDER">>,
    <<"SHOTS_ON_TARGET", "SHOTS_ON_TARGET_OVER_UNDER">>,
    <<"TOTAL_SHOTS_ON_TARGET", "SHOTS_ON_TARGET_OVER_UNDER">>,
    <<"FOULS_OVER_UNDER", "FOULS_OVER_UNDER">>,
    <<"TOTAL_FOULS", "FOULS_OVER_UNDER">>,
    <<"FOULS_OU", "FOULS_OVER_UNDER">>,
    <<"OFFSIDES_OVER_UNDER", "OFFSIDES_OVER_UNDER">>,
    <<"TOTAL_OFFSIDES", "OFFSIDES_OVER_UNDER">>,
    <<"OFFSIDES_OU", "OFFSIDES_OVER_UNDER">>
}

\* The key _normalize_market looks up
_normalize_market_key(value) ==
    strip_chars(collapse_underscores(replace_each(upper(strip(value)), MarketPunctuation, "_")),
                {"_"})

_normalize_market(value) ==
    LET m == Get(_MARKET_ALIASES, _normalize_market_key(value)) IN
    IF m # None THEN Val(m) ELSE UNMAPPED

----------------------------------------------------------------------------
(* service.py: pick normalization *)

Ok(v) == [value |-> v]

_1X2_MAP == {<<"1", "HOME">>, <<"H", "HOME">>, <<"HOME", "HOME">>,
             <<"X", "DRAW">>, <<"D", "DRAW">>, <<"DRAW", "DRAW">>,
             <<"2", "AWAY">>, <<"A", "AWAY">>, <<"AWAY", "AWAY">>}

_OU_MAP == {<<"OVER", "OVER">>, <<"O", "OVER">>, <<"UNDER", "UNDER">>, <<"U", "UNDER">>}

_YES_NO_MAP == {<<"YES", "YES">>, <<"Y", "YES">>, <<"GG", "YES">>,
                <<"NO", "NO">>, <<"N", "NO">>, <<"NG", "NO">>}

_HOME_AWAY_MAP == {<<"1", "HOME">>, <<"HOME", "HOME">>, <<"2", "AWAY">>, <<"AWAY", "AWAY">>}

_ODD_EVEN_MAP == {<<"ODD", "ODD">>, <<"EVEN", "EVEN">>}

_DC_MAP == {<<"1X", "1X">>, <<"X2", "X2">>, <<"12", "12">>}

_lookup(key, mapping, raw, m) ==
    IF Get(mapping, key) = None THEN Raised("ValueError") ELSE Ok(Val(Get(mapping, key)))

_normalize_pick(m, pick) ==
    LET key == replace_char(upper(strip(pick)), " ", "")
        score_norm == replace_char(key, "-", ":")
        score_parts == split(score_norm, ":")
        slash_norm == replace_char(key, "-", "/")
        tokens == split(slash_norm, "/")
        valid_tokens == {"1", "X", "2", "HOME", "DRAW", "AWAY"}
        r_map == {<<"1", "HOME">>, <<"HOME", "HOME">>, <<"X", "DRAW">>,
                  <<"DRAW", "DRAW">>, <<"2", "AWAY">>, <<"AWAY", "AWAY">>}
        b_map == {<<"YES", "YES">>, <<"GG", "YES">>, <<"Y", "YES">>,
                  <<"NO", "NO">>, <<"NG", "NO">>, <<"N", "NO">>}
        o_map == {<<"OVER", "OVER">>, <<"O", "OVER">>, <<"UNDER", "UNDER">>, <<"U", "UNDER">>}
        extra == _HOME_AWAY_MAP \cup {<<"NONE", "NONE">>, <<"NO_GOAL", "NONE">>,
                                      <<"NOGOAL", "NONE">>}
        hmap == {<<"FIRST", "FIRST">>, <<"1ST", "FIRST">>, <<"1", "FIRST">>,
                 <<"SECOND", "SECOND">>, <<"2ND", "SECOND">>, <<"2", "SECOND">>,
                 <<"EQUAL", "EQUAL">>, <<"TIE", "EQUAL">>, <<"X", "EQUAL">>}
    IN
    IF m \in {"MATCH_WINNER", "HT_MATCH_WINNER", "SECOND_HALF_MATCH_WINNER"}
        THEN _lookup(key, _1X2_MAP, pick, m)
    ELSE IF m \in {"DOUBLE_CHANCE", "HT_DOUBLE_CHANCE", "SECOND_HALF_DOUBLE_CHANCE"}
        THEN _lookup(key, _DC_MAP, pick, m)
    ELSE IF m \in {"DRAW_NO_BET", "HT_DRAW_NO_BET", "SECOND_HALF_DRAW_NO_BET",
                   "WIN_TO_NIL", "ASIAN_HANDICAP", "HT_ASIAN_HANDICAP"}
        THEN _lookup(key, _HOME_AWAY_MAP, pick, m)
    ELSE IF m \in {"OVER_UNDER", "HT_OVER_UNDER", "SECOND_HALF_OVER_UNDER",
                   "TEAM_OVER_UNDER", "BOTH_HALVES_OVER_UNDER",
                   "CORNERS_OVER_UNDER", "TEAM_CORNERS_OVER_UNDER",
                   "CARDS_OVER_UNDER", "TEAM_CARDS_OVER_UNDER",
                   "SHOTS_OVER_UNDER", "SHOTS_ON_TARGET_OVER_UNDER",
                   "FOULS_OVER_UNDER", "OFFSIDES_OVER_UNDER"}
        THEN _lookup(key, _OU_MAP, pick, m)
    ELSE IF m \in {"BTTS", "HT_BTTS", "SECOND_HALF_BTTS",
                   "CLEAN_SHEET", "TO_SCORE_IN_BOTH_HALVES"}
        THEN _lookup(key, _YES_NO_MAP, pick, m)
    ELSE IF m \in {"ODD_EVEN", "HT_ODD_EVEN", "SECOND_HALF_ODD_EVEN"}
        THEN _lookup(key, _ODD_EVEN_MAP, pick, m)
    ELSE IF m \in {"TO_WIN_EITHER_HALF", "TO_WIN_BOTH_HALVES"}
        THEN _lookup(key, _HOME_AWAY_MAP, pick, m)
    ELSE IF m = "HANDICAP_RESULT"
        THEN _lookup(key, _1X2_MAP, pick, m)
    ELSE IF m \in {"FIRST_TEAM_TO_SCORE", "LAST_TEAM_TO_SCORE"}
        THEN _lookup(key, extra, pick, m)
    ELSE IF m = "HIGHEST_SCORING_HALF"
        THEN _lookup(key, hmap, pick, m)
    ELSE IF m \in {"CORRECT_SCORE", "HT_CORRECT_SCORE", "SECOND_HALF_CORRECT_SCORE"}
        THEN IF Len(score_parts) = 2 /\ \A k \in 1..2 : isdigit(score_parts[k])
             THEN Ok(score_norm)
             ELSE Raised("ValueError")
    ELSE IF m = "HT_FT"
        THEN IF Len(tokens) = 2 /\ \A k \in 1..2 : tokens[k] \in valid_tokens
             THEN Ok(slash_norm)
             ELSE Raised("ValueError")
    ELSE IF m = "RESULT_BTTS"
        THEN IF Len(tokens) # 2 THEN Raised("ValueError")
             ELSE IF Get(r_map, tokens[1]) = None \/ Get(b_map, tokens[2]) = None
                  THEN Raised("ValueError")
             ELSE Ok(Val(Get(r_map, tokens[1])) \o "/" \o Val(Get(b_map, tokens[2])))
    ELSE IF m = "RESULT_OVER_UNDER"
        THEN IF Len(tokens) # 2 THEN Raised("ValueError")
             ELSE IF Get(r_map, tokens[1]) = None \/ Get(o_map, tokens[2]) = None
                  THEN Raised("ValueError")
             ELSE Ok(Val(Get(r_map, tokens[1])) \o "/" \o Val(Get(o_map, tokens[2])))
    ELSE IF m \in {"EXACT_GOALS", "TEAM_EXACT_GOALS", "MULTI_GOALS", "MARGIN_OF_VICTORY"}
        THEN Ok(key)
    ELSE Ok(key)

----------------------------------------------------------------------------
(* service.py: row -> Selection *)

_line_markets == {
    "OVER_UNDER", "HT_OVER_UNDER", "SECOND_HALF_OVER_UNDER",
    "TEAM_OVER_UNDER", "BOTH_HALVES_OVER_UNDER",
    "ASIAN_HANDICAP", "HT_ASIAN_HANDICAP", "HANDICAP_RESULT",
    "CORNERS_OVER_UNDER", "TEAM_CORNERS_OVER_UNDER",
    "CARDS_OVER_UNDER", "TEAM_CARDS_OVER_UNDER",
    "SHOTS_OVER_UNDER", "SHOTS_ON_TARGET_OVER_UNDER",
    "FOULS_OVER_UNDER", "OFFSIDES_OVER_UNDER",
    "RESULT_OVER_UNDER"
}

_team_markets == {
    "TEAM_OVER_UNDER", "TEAM_CORNERS_OVER_UNDER", "TEAM_CARDS_OVER_UNDER",
    "CLEAN_SHEET", "TEAM_EXACT_GOALS", "TO_SCORE_IN_BOTH_HALVES"
}

\* (x or "").strip().upper() or None
team_or_none(team) ==
    LET t == upper(strip(Or(team, ""))) IN IF t = "" THEN None ELSE Some(t)

\* Mutant: an unrecognized row keeps the normalized key instead of its text.
_row_to_selection_stores_key(row) ==
    LET market == _normalize_market(row.market)
        normalized_pick == _normalize_pick(market, row.pick)
        normalized_team == upper(strip(Or(row.team, "")))
    IN
    IF market = UNMAPPED
    THEN Selection(row.fixture_id, UNMAPPED, upper(strip(row.pick)), row.line,
                   team_or_none(row.team), Some(_normalize_market_key(row.market)))
    ELSE IF IsRaised(normalized_pick) THEN normalized_pick
    ELSE IF market \in _line_markets /\ row.line = None THEN Raised("ValueError")
    ELSE IF market \in _team_markets /\ normalized_team \notin {"HOME", "AWAY"}
         THEN Raised("ValueError")
    ELSE Selection(row.fixture_id, market, normalized_pick.value, row.line,
                   IF market \in _team_markets THEN Some(normalized_team) ELSE None,
                   None)

\* Variant: the team of a team market is normalized but not validated
_row_to_selection_team_unchecked(row) ==
    LET market == _normalize_market(row.market)
        normalized_pick == _normalize_pick(market, row.pick)
    IN
    IF market = UNMAPPED
    THEN Selection(row.fixture_id, UNMAPPED, upper(strip(row.pick)), row.line,
                   team_or_none(row.team), Some(row.market))
    ELSE IF IsRaised(normalized_pick) THEN normalized_pick
    ELSE IF market \in _line_markets /\ row.line = None THEN Raised("ValueError")
    ELSE Selection(row.fixture_id, market, normalized_pick.value, row.line,
                   IF market \in _team_markets THEN team_or_none(row.team) ELSE None,
                   None)

_row_to_selection(row) ==
    LET market == _normalize_market(row.market)
        normalized_pick == _normalize_pick(market, row.pick)
        normalized_team == upper(strip(Or(row.team, "")))
    IN
    IF market = UNMAPPED
    THEN Selection(row.fixture_id, UNMAPPED, upper(strip(row.pick)), row.line,
                   team_or_none(row.team), Some(row.market))
    ELSE IF IsRaised(normalized_pick) THEN normalized_pick
    ELSE IF market \in _line_markets /\ row.line = None THEN Raised("ValueError")
    ELSE IF market \in _team_markets /\ normalized_team \notin {"HOME", "AWAY"}
         THEN Raised("ValueError")
    ELSE Selection(row.fixture_id, market, normalized_pick.value, row.line,
                   IF market \in _team_markets THEN Some(normalized_team) ELSE None,
                   None)

----------------------------------------------------------------------------
(* service.py: smart bet parsing.  A compiled pattern is an operator that  *)
(* gives None when re.match fails and Some(groups) when it succeeds, with  *)
(* the groups of the first alternative for which the rest of the pattern   *)
(* matches.  float(text) is the decimal number the text writes, held as    *)
(* <<mantissa, places>> without trailing zeros.                            *)

StartsWith(s, p) == Len(s) >= Len(p) /\ SubSeq(s, 1, Len(p)) = p
Drop(s, n) == SubSeq(s, n + 1, Len(s))

\* \s*
SkipWs(s) == lstrip(s, Whitespace)

\* The longest run of decimal digits s starts with
RECURSIVE LeadingDigits(_)
LeadingDigits(s) ==
    IF s # "" /\ Char(s, 1) \in Digits THEN Char(s, 1) \o LeadingDigits(Tail(s)) ELSE ""

\* \d+$
IsDigitRun(t) == t # "" /\ LeadingDigits(t) = t

\* \d+(?:\.\d+)?$
IsNumber(t) ==
    LET d == LeadingDigits(t)
        rest == Drop(t, Len(d))
    IN  d # "" /\ (rest = "" \/ (Char(rest, 1) = "." /\ IsDigitRun(Tail(rest))))

\* [+-]?\d+(?:\.\d+)?$ and [+-]\d+(?:\.\d+)?$
IsSignedNumber(t, sign_required) ==
    IF t # "" /\ Char(t, 1) \in {"+", "-"} THEN IsNumber(Tail(t))
    ELSE ~sign_required /\ IsNumber(t)

\* The first alternative of alts s starts with and after which Rest matches;
\* 0 if there is none
FirstAlt(s, alts, Rest(_)) ==
    LET hits == {k \in 1..Len(alts) : StartsWith(s, alts[k]) /\ Rest(Drop(s, Len(alts[k])))} IN
    IF hits = {} THEN 0 ELSE CHOOSE k \in hits : \A j \in hits : k <= j

RECURSIVE Pow10(_)
Pow10(n) == IF n = 0 THEN 1 ELSE 10 * Pow10(n - 1)

RECURSIVE Normalized(_, _)
Normalized(mantissa, places) ==
    IF places > 0 /\ mantissa % 10 = 0 THEN Normalized(mantissa \div 10, places - 1)
    ELSE <<mantissa, places>>

\* float(t) for a text t that IsSignedNumber accepts
float(t) ==
    LET negative == Char(t, 1) = "-"
        body == IF Char(t, 1) \in {"+", "-"} THEN Tail(t) ELSE t
        whole == LeadingDigits(body)
        frac == IF Len(whole) = Len(body) THEN "" ELSE Drop(body, Len(whole) + 1)
        magnitude == DecimalValue(whole) * Pow10(Len(frac)) + DecimalValue(frac)
    IN  Normalized(IF negative THEN -magnitude ELSE magnitude, Len(frac))

\* The dict parse_raw_bet returns; a key the dict does not hold is None
Bet(market, pick, line, team) == [market |-> market, pick |-> pick, line |-> line, team |-> team]

OU_WORDS == <<"OVER", "UNDER", "O", "U">>
RESULT_WORDS == <<"1", "X", "2", "HOME", "DRAW", "AWAY">>
SIDE_WORDS == <<"HOME", "AWAY", "1", "2">>
GG_WORDS == <<"GG", "NG", "YES", "NO", "BTTS">>

\* (OVER|UNDER|O|U)\s*(\d+(?:\.\d+)?)$
OverUnderTail(t) ==
    LET k == FirstAlt(t, OU_WORDS, LAMBDA r : IsNumber(SkipWs(r))) IN
    IF k = 0 THEN None ELSE Some(<<OU_WORDS[k], SkipWs(Drop(t, Len(OU_WORDS[k])))>>)

\* (\d+)\s*[seps]\s*(\d+) followed by Rest
ScoreHead(t, seps, Rest(_)) ==
    LET d1 == LeadingDigits(t)
        u == SkipWs(Drop(t, Len(d1)))
        v == IF u = "" THEN "" ELSE SkipWs(Tail(u))
        d2 == LeadingDigits(v)
    IN  IF d1 # "" /\ u # "" /\ Char(u, 1) \in seps /\ d2 # "" /\ Rest(Drop(v, Len(d2)))
        THEN Some(<<d1, d2>>) ELSE None

AtEnd(t) == t = ""

\* \s*(GOALS?)?$
GoalsTail(t) == SkipWs(t) \in {"", "GOAL", "GOALS"}

\* \s+ followed by Rest
Ws1(t, Rest(_)) == t # "" /\ Char(t, 1) \in Whitespace /\ Rest(SkipWs(t))

_OVER_UNDER_RE(s) == OverUnderTail(s)

_SCORE_RE(s) == ScoreHead(s, {"-", ":"}, AtEnd)

_PREFIXED_OU_alternatives ==
    <<"CORNER", "CORNERS", "CRN",
      "CARD", "CARDS", "YC", "YELLOW", "YELLOW CARDS", "YELLOW CARD",
      "SHOT", "SHOTS", "SOT", "SHOTS ON TARGET",
      "FOUL", "FOULS",
      "OFFSIDE", "OFFSIDES",
      "TEAM CORNER", "TEAM CORNERS",
      "TEAM CARD", "TEAM CARDS",
      "TEAM GOAL", "TEAM GOALS", "TEAM",
      "1H", "HT", "1ST HALF", "FIRST HALF",
      "2H", "2ND HALF", "SECOND HALF",
      "BOTH HALVES", "BH">>

_PREFIXED_OU_RE(s) ==
    LET k == FirstAlt(s, _PREFIXED_OU_alternatives,
                      LAMBDA r : Ws1(r, LAMBDA t : OverUnderTail(t) # None))
    IN  IF k = 0 THEN None
        ELSE LET p == _PREFIXED_OU_alternatives[k] IN
             Some(<<p>> \o Val(OverUnderTail(SkipWs(Drop(s, Len(p))))))

\* (HOME|AWAY|1|2)\s*([+-]?\d+(?:\.\d+)?)$ with the sign optional or required
SideNumberTail(t, sign_required) ==
    LET k == FirstAlt(t, SIDE_WORDS, LAMBDA r : IsSignedNumber(SkipWs(r), sign_required)) IN
    IF k = 0 THEN None ELSE Some(<<SIDE_WORDS[k], SkipWs(Drop(t, Len(SIDE_WORDS[k])))>>)

_HANDICAP_RE(s) ==
    LET heads == <<"AH", "HANDICAP", "HC", "H">>
        k == FirstAlt(s, heads, LAMBDA r : SideNumberTail(SkipWs(r), FALSE) # None)
    IN  IF k = 0 THEN None
        ELSE Some(<<heads[k]>> \o Val(SideNumberTail(SkipWs(Drop(s, Len(heads[k]))), FALSE)))

_HANDICAP_ALT_RE(s) == SideNumberTail(s, TRUE)

\* (head alternatives)\s+(word alternatives)$
HeadWord(s, heads, words) ==
    LET word_of(t) == FirstAlt(t, words, AtEnd)
        k == FirstAlt(s, heads, LAMBDA r : Ws1(r, LAMBDA t : word_of(t) # 0))
    IN  IF k = 0 THEN None
        ELSE Some(<<heads[k], words[word_of(SkipWs(Drop(s, Len(heads[k]))))]>>)

\* (head alternatives)\s+(\d+)\s*[-:]\s*(\d+)$
HeadScore(s, heads) ==
    LET k == FirstAlt(s, heads, LAMBDA r : Ws1(r, LAMBDA t : _SCORE_RE(t) # None)) IN
    IF k = 0 THEN None
    ELSE Some(<<heads[k]>> \o Val(_SCORE_RE(SkipWs(Drop(s, Len(heads[k]))))))

_HT_1X2_RE(s) == HeadWord(s, <<"1H", "HT", "1ST HALF", "FIRST HALF">>, RESULT_WORDS)
_2H_1X2_RE(s) == HeadWord(s, <<"2H", "2ND HALF", "SECOND HALF">>, RESULT_WORDS)
_HT_SCORE_RE(s) == HeadScore(s, <<"HT", "1H", "1ST HALF">>)
_2H_SCORE_RE(s) == HeadScore(s, <<"2H", "2ND HALF">>)
_HT_GG_RE(s) == HeadWord(s, <<"HT", "1H", "1ST HALF">>, GG_WORDS)
_2H_GG_RE(s) == HeadWord(s, <<"2H", "2ND HALF">>, GG_WORDS)

\* \s*[/&+]\s* followed by Rest
ComboSep(t, Rest(_)) ==
    LET u == SkipWs(t) IN
    u # "" /\ Char(u, 1) \in {"/", "&", "+"} /\ Rest(SkipWs(Tail(u)))

AfterComboSep(t) == SkipWs(Tail(SkipWs(t)))

_RESULT_BTTS_RE(s) ==
    LET word_of(t) == FirstAlt(t, GG_WORDS, AtEnd)
        k == FirstAlt(s, RESULT_WORDS, LAMBDA r : ComboSep(r, LAMBDA t : word_of(t) # 0))
    IN  IF k = 0 THEN None
        ELSE Some(<<RESULT_WORDS[k],
                    GG_WORDS[word_of(AfterComboSep(Drop(s, Len(RESULT_WORDS[k]))))]>>)

_RESULT_OU_RE(s) ==
    LET k == FirstAlt(s, RESULT_WORDS, LAMBDA r : ComboSep(r, LAMBDA t : OverUnderTail(t) # None)) IN
    IF k = 0 THEN None
    ELSE Some(<<RESULT_WORDS[k]>>
              \o Val(OverUnderTail(AfterComboSep(Drop(s, Len(RESULT_WORDS[k]))))))

\* (\d+)\s*(GOALS?)?$
DigitsGoals(t) ==
    LET d == LeadingDigits(t) IN
    IF d # "" /\ GoalsTail(Drop(t, Len(d))) THEN Some(d) ELSE None

_EXACT_GOALS_RE(s) ==
    LET heads == <<"EXACT", "EXACTLY">>
        k == FirstAlt(s, heads, LAMBDA r : DigitsGoals(SkipWs(r)) # None)
    IN  IF k = 0 THEN None
        ELSE Some(<<heads[k], Val(DigitsGoals(SkipWs(Drop(s, Len(heads[k])))))>>)

_MULTI_GOALS_RE(s) == ScoreHead(s, {"-"}, GoalsTail)

\* BY\s+(\d+)(\+)?$
ByTail(t) ==
    LET u == IF StartsWith(t, "BY") THEN Drop(t, 2) ELSE ""
        v == SkipWs(u)
        d == LeadingDigits(v)
        plus == Drop(v, Len(d))
    IN  IF StartsWith(t, "BY") /\ u # "" /\ Char(u, 1) \in Whitespace /\ d # "" /\ plus \in {"", "+"}
        THEN Some(<<d, plus>>) ELSE None

_MARGIN_RE(s) ==
    LET k == FirstAlt(s, SIDE_WORDS, LAMBDA r : Ws1(r, LAMBDA t : ByTail(t) # None)) IN
    IF k = 0 THEN None
    ELSE Some(<<SIDE_WORDS[k]>> \o Val(ByTail(SkipWs(Drop(s, Len(SIDE_WORDS[k]))))))

_R_MAP == {<<"1", "HOME">>, <<"H", "HOME">>, <<"HOME", "HOME">>,
           <<"X", "DRAW">>, <<"D", "DRAW">>, <<"DRAW", "DRAW">>,
           <<"2", "AWAY">>, <<"A", "AWAY">>, <<"AWAY", "AWAY">>}

_B_MAP == {<<"GG", "YES">>, <<"YES", "YES">>, <<"Y", "YES">>, <<"BTTS", "YES">>,
           <<"NG", "NO">>, <<"NO", "NO">>, <<"N", "NO">>}

_HA_MAP == {<<"1", "HOME">>, <<"HOME", "HOME">>, <<"2", "AWAY">>, <<"AWAY", "AWAY">>}

\* Variant: the table without the prefixes of the two halves
_PREFIX_TO_MARKET_without_halves == {
    <<"CORNER", "CORNERS_OVER_UNDER">>, <<"CORNERS", "CORNERS_OVER_UNDER">>,
    <<"CRN", "CORNERS_OVER_UNDER">>,
    <<"CARD", "CARDS_OVER_UNDER">>, <<"CARDS", "CARDS_OVER_UNDER">>, <<"YC", "CARDS_OVER_UNDER">>,
    <<"YELLOW", "CARDS_OVER_UNDER">>, <<"YELLOW CARD", "CARDS_OVER_UNDER">>,
    <<"YELLOW CARDS", "CARDS_OVER_UNDER">>,
    <<"SHOT", "SHOTS_OVER_UNDER">>, <<"SHOTS", "SHOTS_OVER_UNDER">>,
    <<"SOT", "SHOTS_ON_TARGET_OVER_UNDER">>, <<"SHOTS ON TARGET", "SHOTS_ON_TARGET_OVER_UNDER">>,
    <<"FOUL", "FOULS_OVER_UNDER">>, <<"FOULS", "FOULS_OVER_UNDER">>,
    <<"OFFSIDE", "OFFSIDES_OVER_UNDER">>, <<"OFFSIDES", "OFFSIDES_OVER_UNDER">>,
    <<"TEAM CORNER", "TEAM_CORNERS_OVER_UNDER">>, <<"TEAM CORNERS", "TEAM_CORNERS_OVER_UNDER">>,
    <<"TEAM CARD", "TEAM_CARDS_OVER_UNDER">>, <<"TEAM CARDS", "TEAM_CARDS_OVER_UNDER">>,
    <<"TEAM", "TEAM_OVER_UNDER">>, <<"TEAM GOAL", "TEAM_OVER_UNDER">>,
    <<"TEAM GOALS", "TEAM_OVER_UNDER">>,
    <<"BOTH HALVES", "BOTH_HALVES_OVER_UNDER">>, <<"BH", "BOTH_HALVES_OVER_UNDER">>
}

_PREFIX_TO_MARKET == {
    <<"CORNER", "CORNERS_OVER_UNDER">>, <<"CORNERS", "CORNERS_OVER_UNDER">>,
    <<"CRN", "CORNERS_OVER_UNDER">>,
    <<"CARD", "CARDS_OVER_UNDER">>, <<"CARDS", "CARDS_OVER_UNDER">>, <<"YC", "CARDS_OVER_UNDER">>,
    <<"YELLOW", "CARDS_OVER_UNDER">>, <<"YELLOW CARD", "CARDS_OVER_UNDER">>,
    <<"YELLOW CARDS", "CARDS_OVER_UNDER">>,
    <<"SHOT", "SHOTS_OVER_UNDER">>, <<"SHOTS", "SHOTS_OVER_UNDER">>,
    <<"SOT", "SHOTS_ON_TARGET_OVER_UNDER">>, <<"SHOTS ON TARGET", "SHOTS_ON_TARGET_OVER_UNDER">>,
    <<"FOUL", "FOULS_OVER_UNDER">>, <<"FOULS", "FOULS_OVER_UNDER">>,
    <<"OFFSIDE", "OFFSIDES_OVER_UNDER">>, <<"OFFSIDES", "OFFSIDES_OVER_UNDER">>,
    <<"TEAM CORNER", "TEAM_CORNERS_OVER_UNDER">>, <<"TEAM CORNERS", "TEAM_CORNERS_OVER_UNDER">>,
    <<"TEAM CARD", "TEAM_CARDS_OVER_UNDER">>, <<"TEAM CARDS", "TEAM_CARDS_OVER_UNDER">>,
    <<"TEAM", "TEAM_OVER_UNDER">>, <<"TEAM GOAL", "TEAM_OVER_UNDER">>,
    <<"TEAM GOALS", "TEAM_OVER_UNDER">>,
    <<"1H", "HT_OVER_UNDER">>, <<"HT", "HT_OVER_UNDER">>, <<"1ST HALF", "HT_OVER_UNDER">>,
    <<"FIRST HALF", "HT_OVER_UNDER">>,
    <<"2H", "SECOND_HALF_OVER_UNDER">>, <<"2ND HALF", "SECOND_HALF_OVER_UNDER">>,
    <<"SECOND HALF", "SECOND_HALF_OVER_UNDER">>,
    <<"BOTH HALVES", "BOTH_HALVES_OVER_UNDER">>, <<"BH", "BOTH_HALVES_OVER_UNDER">>
}

\* dict.get(key, default)
GetOr(mapping, key, default) ==
    IF Get(mapping, key) = None THEN default ELSE Val(Get(mapping, key))

\* "OVER" if word.startswith("O") else "UNDER"
over_or_under(word) == IF StartsWith(word, "O") THEN "OVER" ELSE "UNDER"

\* The exact strings of the last part of parse_raw_bet, in the order of the
\* code: <<strings, market, pick, team>>
_literal_bets == <<
    <<{"1", "H", "HOME"}, "MATCH_WINNER", "HOME", None>>,
    <<{"X", "D", "DRAW"}, "MATCH_WINNER", "DRAW", None>>,
    <<{"2", "A", "AWAY"}, "MATCH_WINNER", "AWAY", None>>,
    <<{"1X"}, "DOUBLE_CHANCE", "1X", None>>,
    <<{"X2"}, "DOUBLE_CHANCE", "X2", None>>,
    <<{"12"}, "DOUBLE_CHANCE", "12", None>>,
    <<{"GG", "YES", "Y", "BTTS", "BTTS YES"}, "BTTS", "YES", None>>,
    <<{"NG", "NO", "N", "BTTS NO"}, "BTTS", "NO", None>>,
    <<{"ODD", "DISPARI"}, "ODD_EVEN", "ODD", None>>,
    <<{"EVEN", "PARI"}, "ODD_EVEN", "EVEN", None>>,
    <<{"HT ODD", "1H ODD"}, "HT_ODD_EVEN", "ODD", None>>,
    <<{"HT EVEN", "1H EVEN"}, "HT_ODD_EVEN", "EVEN", None>>,
    <<{"2H ODD"}, "SECOND_HALF_ODD_EVEN", "ODD", None>>,
    <<{"2H EVEN"}, "SECOND_HALF_ODD_EVEN", "EVEN", None>>,
    <<{"DNB 1", "DNB HOME", "DNB1"}, "DRAW_NO_BET", "HOME", None>>,
    <<{"DNB 2", "DNB AWAY", "DNB2"}, "DRAW_NO_BET", "AWAY", None>>,
    <<{"HT DNB 1", "HT DNB HOME", "1H DNB 1"}, "HT_DRAW_NO_BET", "HOME", None>>,
    <<{"HT DNB 2", "HT DNB AWAY", "1H DNB 2"}, "HT_DRAW_NO_BET", "AWAY", None>>,
    <<{"HT 1X", "1H 1X"}, "HT_DOUBLE_CHANCE", "1X", None>>,
    <<{"HT X2", "1H X2"}, "HT_DOUBLE_CHANCE", "X2", None>>,
    <<{"HT 12", "1H 12"}, "HT_DOUBLE_CHANCE", "12", None>>,
    <<{"2H 1X"}, "SECOND_HALF_DOUBLE_CHANCE", "1X", None>>,
    <<{"2H X2"}, "SECOND_HALF_DOUBLE_CHANCE", "X2", None>>,
    <<{"2H 12"}, "SECOND_HALF_DOUBLE_CHANCE", "12", None>>,
    <<{"HOME WIN NIL", "1 NIL", "HOME NIL", "WIN TO NIL 1", "WTN 1"}, "WIN_TO_NIL", "HOME", None>>,
    <<{"AWAY WIN NIL", "2 NIL", "AWAY NIL", "WIN TO NIL 2", "WTN 2"}, "WIN_TO_NIL", "AWAY", None>>,
    <<{"CS HOME YES", "CLEAN SHEET HOME", "CS 1"}, "CLEAN_SHEET", "YES", Some("HOME")>>,
    <<{"CS AWAY YES", "CLEAN SHEET AWAY", "CS 2"}, "CLEAN_SHEET", "YES", Some("AWAY")>>,
    <<{"CS HOME NO"}, "CLEAN_SHEET", "NO", Some("HOME")>>,
    <<{"CS AWAY NO"}, "CLEAN_SHEET", "NO", Some("AWAY")>>,
    <<{"FIRST GOAL HOME", "1ST GOAL 1", "FIRST GOAL 1"}, "FIRST_TEAM_TO_SCORE", "HOME", None>>,
    <<{"FIRST GOAL AWAY", "1ST GOAL 2", "FIRST GOAL 2"}, "FIRST_TEAM_TO_SCORE", "AWAY", None>>,
    <<{"NO GOAL", "NO GOALS", "0:0"}, "FIRST_TEAM_TO_SCORE", "NONE", None>>,
    <<{"LAST GOAL HOME", "LAST GOAL 1"}, "LAST_TEAM_TO_SCORE", "HOME", None>>,
    <<{"LAST GOAL AWAY", "LAST GOAL 2"}, "LAST_TEAM_TO_SCORE", "AWAY", None>>,
    <<{"1ST HALF HIGHEST", "HSH 1ST", "HSH 1", "HIGHEST 1ST"}, "HIGHEST_SCORING_HALF", "FIRST", None>>,
    <<{"2ND HALF HIGHEST", "HSH 2ND", "HSH 2", "HIGHEST 2ND"}, "HIGHEST_SCORING_HALF", "SECOND", None>>,
    <<{"HSH EQUAL", "EQUAL HALVES", "HSH X"}, "HIGHEST_SCORING_HALF", "EQUAL", None>>
>>

\* lines 917-1026: the HT/FT test, then the exact strings, then UNMAPPED
parse_raw_bet_literals(s) ==
    LET parts == split(s, "/")
        valid_tokens == {"1", "X", "2", "HOME", "DRAW", "AWAY"}
        hits == {k \in 1..Len(_literal_bets) : s \in _literal_bets[k][1]}
        first == CHOOSE k \in hits : \A j \in hits : k <= j
    IN  IF Contains(s, "/") /\ Len(s) <= 11 /\ Len(parts) = 2
           /\ \A k \in 1..Len(parts) : strip(parts[k]) \in valid_tokens
        THEN Bet("HT_FT", s, None, None)
        ELSE IF hits # {}
        THEN Bet(_literal_bets[first][2], _literal_bets[first][3], None, _literal_bets[first][4])
        ELSE Bet("UNMAPPED", s, None, None)

\* lines 821-915: the patterns after the prefixed over/under
parse_raw_bet_patterns(s) ==
    LET rou == _RESULT_OU_RE(s)
        rbt == _RESULT_BTTS_RE(s)
        hc == _HANDICAP_RE(s)
        hca == _HANDICAP_ALT_RE(s)
        ht == _HT_1X2_RE(s)
        sh == _2H_1X2_RE(s)
        hts == _HT_SCORE_RE(s)
        shs == _2H_SCORE_RE(s)
        htg == _HT_GG_RE(s)
        shg == _2H_GG_RE(s)
        ou == _OVER_UNDER_RE(s)
        sc == _SCORE_RE(s)
        ex == _EXACT_GOALS_RE(s)
        mg == _MULTI_GOALS_RE(s)
        mov == _MARGIN_RE(s)
    IN  IF rou # None /\ Get(_R_MAP, Val(rou)[1]) # None
        THEN Bet("RESULT_OVER_UNDER",
                 Val(Get(_R_MAP, Val(rou)[1])) \o "/" \o over_or_under(Val(rou)[2]),
                 Some(float(Val(rou)[3])), None)
        ELSE IF rbt # None /\ Get(_R_MAP, Val(rbt)[1]) # None /\ Get(_B_MAP, Val(rbt)[2]) # None
        THEN Bet("RESULT_BTTS",
                 Val(Get(_R_MAP, Val(rbt)[1])) \o "/" \o Val(Get(_B_MAP, Val(rbt)[2])), None, None)
        ELSE IF hc # None
        THEN Bet("ASIAN_HANDICAP", GetOr(_HA_MAP, Val(hc)[2], Val(hc)[2]),
                 Some(float(Val(hc)[3])), None)
        ELSE IF hca # None /\ GetOr(_HA_MAP, Val(hca)[1], Val(hca)[1]) \in {"HOME", "AWAY"}
        THEN Bet("ASIAN_HANDICAP", GetOr(_HA_MAP, Val(hca)[1], Val(hca)[1]),
                 Some(float(Val(hca)[2])), None)
        ELSE IF ht # None
        THEN Bet("HT_MATCH_WINNER", GetOr(_R_MAP, Val(ht)[2], Val(ht)[2]), None, None)
        ELSE IF sh # None
        THEN Bet("SECOND_HALF_MATCH_WINNER", GetOr(_R_MAP, Val(sh)[2], Val(sh)[2]), None, None)
        ELSE IF hts # None
        THEN Bet("HT_CORRECT_SCORE", Val(hts)[2] \o ":" \o Val(hts)[3], None, None)
        ELSE IF shs # None
        THEN Bet("SECOND_HALF_CORRECT_SCORE", Val(shs)[2] \o ":" \o Val(shs)[3], None, None)
        ELSE IF htg # None
        THEN Bet("HT_BTTS", GetOr(_B_MAP, Val(htg)[2], "YES"), None, None)
        ELSE IF shg # None
        THEN Bet("SECOND_HALF_BTTS", GetOr(_B_MAP, Val(shg)[2], "YES"), None, None)
        ELSE IF ou # None
        THEN Bet("OVER_UNDER", IF Char(Val(ou)[1], 1) = "O" THEN "OVER" ELSE "UNDER",
                 Some(float(Val(ou)[2])), None)
        ELSE IF sc # None
        THEN Bet("CORRECT_SCORE", Val(sc)[1] \o ":" \o Val(sc)[2], None, None)
        ELSE IF ex # None
        THEN Bet("EXACT_GOALS", Val(ex)[2], None, None)
        ELSE IF mg # None
        THEN Bet("MULTI_GOALS", Val(mg)[1] \o "-" \o Val(mg)[2], None, None)
        ELSE IF mov # None
        THEN Bet("MARGIN_OF_VICTORY",
                 GetOr(_HA_MAP, Val(mov)[1], Val(mov)[1]) \o " BY " \o Val(mov)[2] \o Val(mov)[3],
                 None, None)
        ELSE parse_raw_bet_literals(s)

parse_raw_bet(raw) ==
    LET s == upper(strip(raw))
        m == _PREFIXED_OU_RE(s)
    IN  IF m # None
        THEN LET market == GetOr(_PREFIX_TO_MARKET, Val(m)[1], "OVER_UNDER") IN
             Bet(market, over_or_under(Val(m)[2]), Some(float(Val(m)[3])),
                 IF market \in {"TEAM_OVER_UNDER", "TEAM_CORNERS_OVER_UNDER", "TEAM_CARDS_OVER_UNDER"}
                 THEN Some("HOME") ELSE None)
        ELSE parse_raw_bet_patterns(s)
----------------------------------------------------------------------------
(* service.py: the direct path, SelectionIn and its validators *)

_ou_markets == {
    "OVER_UNDER", "HT_OVER_UNDER", "SECOND_HALF_OVER_UNDER",
    "BOTH_HALVES_OVER_UNDER",
    "CORNERS_OVER_UNDER", "CARDS_OVER_UNDER",
    "SHOTS_OVER_UNDER", "SHOTS_ON_TARGET_OVER_UNDER",
    "FOULS_OVER_UNDER", "OFFSIDES_OVER_UNDER"
}

_team_ou == {"TEAM_OVER_UNDER", "TEAM_CORNERS_OVER_UNDER", "TEAM_CARDS_OVER_UNDER"}

\* The fields of a selection of the request body
SelectionInput(fixture_id, market, pick, line, team) ==
    [fixture_id |-> fixture_id, market |-> market, pick |-> pick, line |-> line, team |-> team]

\* normalize_pick
normalize_pick(value) == upper(strip(value))

\* SelectionIn.validate_market_constraints, lines 42-166, on a model whose
\* pick is normalized: the selection, or the ValueError raised
validate_market_constraints(self) ==
    LET m == self.market
        pick == self.pick
        tv == upper(strip(Or(self.team, "")))
        bad_pick ==
            \/ m = "MATCH_WINNER" /\ pick \notin {"HOME", "DRAW", "AWAY"}
            \/ m = "DOUBLE_CHANCE" /\ pick \notin {"1X", "X2", "12"}
            \/ m = "DRAW_NO_BET" /\ pick \notin {"HOME", "AWAY"}
            \/ m \in _ou_markets \cup _team_ou /\ pick \notin {"OVER", "UNDER"}
            \/ m \in {"BTTS", "HT_BTTS", "SECOND_HALF_BTTS"} /\ pick \notin {"YES", "NO"}
            \/ m \in {"CORRECT_SCORE", "HT_CORRECT_SCORE", "SECOND_HALF_CORRECT_SCORE"}
               /\ ~Contains(pick, ":") /\ ~Contains(pick, "-")
            \/ m \in {"HT_MATCH_WINNER", "SECOND_HALF_MATCH_WINNER"}
               /\ pick \notin {"HOME", "DRAW", "AWAY"}
            \/ m \in {"HT_DOUBLE_CHANCE", "SECOND_HALF_DOUBLE_CHANCE"}
               /\ pick \notin {"1X", "X2", "12"}
            \/ m \in {"HT_DRAW_NO_BET", "SECOND_HALF_DRAW_NO_BET"} /\ pick \notin {"HOME", "AWAY"}
            \/ m \in {"ODD_EVEN", "HT_ODD_EVEN", "SECOND_HALF_ODD_EVEN"}
               /\ pick \notin {"ODD", "EVEN"}
            \/ m \in {"ASIAN_HANDICAP", "HT_ASIAN_HANDICAP"} /\ pick \notin {"HOME", "AWAY"}
            \/ m = "HANDICAP_RESULT" /\ pick \notin {"HOME", "DRAW", "AWAY"}
            \/ m = "HT_FT" /\ ~Contains(replace_char(pick, "-", "/"), "/")
            \/ m = "WIN_TO_NIL" /\ pick \notin {"HOME", "AWAY"}
            \/ m = "CLEAN_SHEET" /\ pick \notin {"YES", "NO"}
            \/ m \in {"FIRST_TEAM_TO_SCORE", "LAST_TEAM_TO_SCORE"}
               /\ pick \notin {"HOME", "AWAY", "NONE"}
            \/ m = "TO_SCORE_IN_BOTH_HALVES" /\ pick \notin {"YES", "NO"}
            \/ m \in {"TO_WIN_EITHER_HALF", "TO_WIN_BOTH_HALVES"} /\ pick \notin {"HOME", "AWAY"}
            \/ m = "HIGHEST_SCORING_HALF"
               /\ pick \notin {"FIRST", "SECOND", "EQUAL", "1ST", "2ND", "TIE"}
        line_markets ==
            _ou_markets \cup _team_ou \cup {"ASIAN_HANDICAP", "HT_ASIAN_HANDICAP", "HANDICAP_RESULT"}
        team_markets == _team_ou \cup {"CLEAN_SHEET", "TO_SCORE_IN_BOTH_HALVES"}
    IN  IF bad_pick THEN Raised("ValueError")
        ELSE IF m \in line_markets /\ self.line = None THEN Raised("ValueError")
        ELSE IF m \in team_markets /\ tv \notin {"HOME", "AWAY"} THEN Raised("ValueError")
        ELSE IF m \in team_markets THEN [self EXCEPT !.team = Some(tv)]
        ELSE self

\* SelectionIn(**fields): the field constraints, normalize_pick, then
\* validate_market_constraints
SelectionIn(fields) ==
    IF fields.fixture_id <= 0 \/ fields.market \notin Market \/ Len(fields.pick) < 1
    THEN Raised("ValidationError")
    ELSE validate_market_constraints([fields EXCEPT !.pick = normalize_pick(fields.pick)])
----------------------------------------------------------------------------
(* evaluator.py: slip aggregation *)

statuses_of(rs) == [k \in 1..Len(rs) |-> rs[k].status]

In(x, seq) == \E k \in 1..Len(seq) : seq[k] = x
All(seq, S) == \A k \in 1..Len(seq) : seq[k] \in S

\* Mutant: VOID forgotten in the non-loss set.
non_loss_without_void == {W, PUSH, REFUND, CANCELLED}

non_loss == {W, PUSH, VOID, REFUND, CANCELLED}

\* Mutant: the PENDING / NOT_SUPPORTED test placed before the LOST test.
_aggregate_slip_return_pending_first(rs) ==
    LET statuses == statuses_of(rs) IN
    IF rs = <<>> THEN [line |-> 825, value |-> PENDING]
    ELSE IF In(PENDING, statuses) \/ In(NOT_SUPPORTED, statuses)
         THEN [line |-> 830, value |-> PENDING]
    ELSE IF In(LOST, statuses) THEN [line |-> 828, value |-> LOST]
    ELSE IF All(statuses, {WON}) THEN [line |-> 832, value |-> WON]
    ELSE IF All(statuses, non_loss)
         THEN [line |-> 835, value |-> IF In(W, statuses) THEN W ELSE REFUND]
    ELSE [line |-> 836, value |-> PENDING]

\* Mutant: a slip without loss that is not all WON is refunded even when a
\* leg won.
_aggregate_slip_return_refund_always(rs) ==
    LET statuses == statuses_of(rs) IN
    IF rs = <<>> THEN [line |-> 825, value |-> PENDING]
    ELSE IF In(LOST, statuses) THEN [line |-> 828, value |-> LOST]
    ELSE IF In(PENDING, statuses) \/ In(NOT_SUPPORTED, statuses)
         THEN [line |-> 830, value |-> PENDING]
    ELSE IF All(statuses, {WON}) THEN [line |-> 832, value |-> WON]
    ELSE IF All(statuses, non_loss)
         THEN [line |-> 835, value |-> REFUND]
    ELSE [line |-> 836, value |-> PENDING]

\* Mutant: only a LOST first leg loses the slip.
_aggregate_slip_return_lost_first_leg_only(rs) ==
    LET statuses == statuses_of(rs) IN
    IF rs = <<>> THEN [line |-> 825, value |-> PENDING]
    ELSE IF statuses[1] = LOST THEN [line |-> 828, value |-> LOST]
    ELSE IF In(PENDING, statuses) \/ In(NOT_SUPPORTED, statuses)
         THEN [line |-> 830, value |-> PENDING]
    ELSE IF All(statuses, {WON}) THEN [line |-> 832, value |-> WON]
    ELSE IF All(statuses, non_loss)
         THEN [line |-> 835, value |-> IF In(W, statuses) THEN W ELSE REFUND]
    ELSE [line |-> 836, value |-> PENDING]

\* The return statement _aggregate_slip_status reaches (its source line) and
\* the value it returns.
_aggregate_slip_return(rs) ==
    LET statuses == statuses_of(rs) IN
    IF rs = <<>> THEN [line |-> 825, value |-> PENDING]
    ELSE IF In(LOST, statuses) THEN [line |-> 828, value |-> LOST]
    ELSE IF In(PENDING, statuses) \/ In(NOT_SUPPORTED, statuses)
         THEN [line |-> 830, value |-> PENDING]
    ELSE IF All(statuses, {WON}) THEN [line |-> 832, value |-> WON]
    ELSE IF All(statuses, non_loss)
         THEN [line |-> 835, value |-> IF In(W, statuses) THEN W ELSE REFUND]
    ELSE [line |-> 836, value |-> PENDING]

_aggregate_slip_status(rs) == _aggregate_slip_return(rs).value

----------------------------------------------------------------------------
(* evaluator.py: evaluate_betslip.  The loop is cut at the provider calls: *)
(* one action per call and per way the call can end, each running the loop *)
(* body up to the next call.  checked_at (the wall clock) is left out.     *)

\* Inputs: slips of at most MaxLegs selections, drawn from rows mapped by the
\* table path and from selections built by the direct path.
SlipRows == {
    TableRowIn(1, "Exotic-Super Market", " x ", None, None),
    TableRowIn(2, " ", "1", None, None),
    TableRowIn(2, "1x2", "1", None, None),
    TableRowIn(3, "corners ou", "u", Some(LineScale), None)
}

SlipSelections ==
    {_row_to_selection(row) : row \in SlipRows}
    \cup {Selection(2, UNMAPPED, "HOME", None, None, None),
          Selection(3, "OVER_UNDER", "OVER", Some(LineScale), None, None)}

Slips == UNION {[1..n -> SlipSelections] : n \in 0..MaxLegs}

\* What the provider may answer
SlipStatusCodes == {"NS", "1H", "FT", "AET"}

SlipScores == {<<None, None>>, <<Some(1), Some(0)>>, <<Some(0), Some(1)>>,
               <<Some(1), Some(1)>>}

SlipOutcomes(fixture_id) ==
    {FixtureOutcome(fixture_id, st, sc[1], sc[2], None, None, sc[1], sc[2],
                    None, None, None, None) :
        st \in SlipStatusCodes, sc \in SlipScores}

SlipStatistics(fixture_id) ==
    {FixtureStatistics(fixture_id, [corners_home |-> c[1], corners_away |-> c[2]]) :
        c \in {<<Some(1), Some(1)>>, <<Some(0), Some(1)>>, <<None, Some(1)>>,
               <<Some(0), Some(0)>>}}

\* One provider call of the log: the function, its argument, the leg it was
\* made for, and how it ended: None when it raised, else the status_short of
\* the fixture returned (get_fixture_outcome) or "" (get_fixture_statistics).
Call(fn, fixture_id, leg, returned) ==
    [fn |-> fn, fixture_id |-> fixture_id, leg |-> leg, returned |-> returned]

Init ==
    /\ selections \in Slips
    /\ idx = 0
    /\ sel = NoSelection
    /\ outcome = None
    /\ stats = None
    /\ results = <<>>
    /\ calls = <<>>
    /\ pc = "loop"
    /\ slip = None
    /\ payload = None

\* The selection the loop takes next
Leg == selections[idx + 1]

InLoop == pc = "loop" /\ idx < Len(selections)

\* lines 843-849: an unmapped market is reported without any provider call
SelectUnmapped ==
    /\ InLoop
    /\ Leg.market = UNMAPPED
    /\ sel' = Leg
    /\ results' = Append(results,
            SelectionResult(Leg.fixture_id, Or(Leg.raw_market, Leg.market), Leg.pick,
                            NS, "Market is not yet implemented"))
    /\ idx' = idx + 1
    /\ UNCHANGED <<selections, outcome, stats, calls, pc, slip, payload>>

\* Mutant: the exception of get_fixture_outcome is not caught and leaves
\* evaluate_betslip.
OutcomeRaises_propagates ==
    /\ InLoop
    /\ Leg.market # UNMAPPED
    /\ sel' = Leg
    /\ calls' = Append(calls, Call("get_fixture_outcome", Leg.fixture_id, idx + 1, None))
    /\ pc' = "raised"
    /\ UNCHANGED <<selections, idx, outcome, stats, results, slip, payload>>

\* Mutant: after get_fixture_outcome raises, the same selection is tried again.
OutcomeRaises_retries ==
    /\ InLoop
    /\ Leg.market # UNMAPPED
    /\ Len(calls) < 2 * MaxLegs
    /\ sel' = Leg
    /\ calls' = Append(calls, Call("get_fixture_outcome", Leg.fixture_id, idx + 1, None))
    /\ UNCHANGED <<selections, idx, outcome, stats, results, pc, slip, payload>>

\* lines 851-855: get_fixture_outcome raises
OutcomeRaises ==
    /\ InLoop
    /\ Leg.market # UNMAPPED
    /\ sel' = Leg
    /\ calls' = Append(calls, Call("get_fixture_outcome", Leg.fixture_id, idx + 1, None))
    /\ results' = Append(results, _r(Leg, P, "Could not fetch fixture outcome: "))
    /\ idx' = idx + 1
    /\ UNCHANGED <<selections, outcome, stats, pc, slip, payload>>

\* Mutant: a fixture that is not final is skipped without a result.
OutcomeNotFinal_skips ==
    /\ InLoop
    /\ Leg.market # UNMAPPED
    /\ \E o \in SlipOutcomes(Leg.fixture_id) :
        /\ ~is_final_status(o.status_short)
        /\ outcome' = Some(o)
        /\ calls' = Append(calls, Call("get_fixture_outcome", Leg.fixture_id, idx + 1,
                                       Some(o.status_short)))
    /\ sel' = Leg
    /\ idx' = idx + 1
    /\ UNCHANGED <<selections, stats, results, pc, slip, payload>>

\* lines 852, 857-859: get_fixture_outcome returns a fixture that is not final
OutcomeNotFinal ==
    /\ InLoop
    /\ Leg.market # UNMAPPED
    /\ \E o \in SlipOutcomes(Leg.fixture_id) :
        /\ ~is_final_status(o.status_short)
        /\ outcome' = Some(o)
        /\ calls' = Append(calls, Call("get_fixture_outcome", Leg.fixture_id, idx + 1,
                                       Some(o.status_short)))
    /\ sel' = Leg
    /\ results' = Append(results, _r(Leg, P, "Fixture not finalized yet"))
    /\ idx' = idx + 1
    /\ UNCHANGED <<selections, stats, pc, slip, payload>>

\* lines 852, 857, 870: a final fixture, a score market
OutcomeFinalScore ==
    /\ InLoop
    /\ Leg.market # UNMAPPED
    /\ Leg.market \notin STATS_MARKETS
    /\ \E o \in SlipOutcomes(Leg.fixture_id) :
        /\ is_final_status(o.status_short)
        /\ outcome' = Some(o)
        /\ calls' = Append(calls, Call("get_fixture_outcome", Leg.fixture_id, idx + 1,
                                       Some(o.status_short)))
        /\ LET r == evaluate_selection(Leg, o) IN
           IF IsRaised(r)
           THEN pc' = "raised" /\ UNCHANGED <<results, idx>>
           ELSE results' = Append(results, r) /\ idx' = idx + 1 /\ pc' = pc
    /\ sel' = Leg
    /\ UNCHANGED <<selections, stats, slip, payload>>

\* lines 852, 857, 861-863: a final fixture, a statistics market: the
\* statistics are fetched next
OutcomeFinalStats ==
    /\ InLoop
    /\ Leg.market \in STATS_MARKETS
    /\ \E o \in SlipOutcomes(Leg.fixture_id) :
        /\ is_final_status(o.status_short)
        /\ outcome' = Some(o)
        /\ calls' = Append(calls, Call("get_fixture_outcome", Leg.fixture_id, idx + 1,
                                       Some(o.status_short)))
    /\ sel' = Leg
    /\ pc' = "stats"
    /\ UNCHANGED <<selections, idx, stats, results, slip, payload>>

\* lines 863-866: get_fixture_statistics raises
StatsRaises ==
    /\ pc = "stats"
    /\ calls' = Append(calls, Call("get_fixture_statistics", sel.fixture_id, idx + 1, None))
    /\ results' = Append(results, _r(sel, P, "Could not fetch fixture statistics: "))
    /\ idx' = idx + 1
    /\ pc' = "loop"
    /\ UNCHANGED <<selections, sel, outcome, stats, slip, payload>>

\* lines 863, 867-868: get_fixture_statistics returns
StatsReturns ==
    /\ pc = "stats"
    /\ \E st \in SlipStatistics(sel.fixture_id) :
        /\ stats' = Some(st)
        /\ LET r == evaluate_stats_selection(sel, Some(st)) IN
           IF IsRaised(r)
           THEN pc' = "raised" /\ UNCHANGED <<results, idx>>
           ELSE results' = Append(results, r) /\ idx' = idx + 1 /\ pc' = "loop"
    /\ calls' = Append(calls, Call("get_fixture_statistics", sel.fixture_id, idx + 1, Some("")))
    /\ UNCHANGED <<selections, sel, outcome, slip, payload>>

\* lines 872-880: the loop is over, the slip status is aggregated and returned
Return ==
    /\ pc = "loop"
    /\ idx = Len(selections)
    /\ slip' = Some(_aggregate_slip_status(results))
    /\ pc' = "done"
    /\ UNCHANGED <<selections, idx, sel, outcome, stats, results, calls, payload>>

Next ==
    \/ SelectUnmapped
    \/ OutcomeRaises
    \/ OutcomeNotFinal
    \/ OutcomeFinalScore
    \/ OutcomeFinalStats
    \/ StatsRaises
    \/ StatsReturns
    \/ Return

Spec == Init /\ [][Next]_vars

----------------------------------------------------------------------------
(* The aggregator on arbitrary result lists: every list of at most         *)
(* MaxAggLen results over the eight statuses is built, then aggregated.    *)

AggResult(s) == SelectionResult(1, "MATCH_WINNER", "HOME", s, "")

InitAgg ==
    /\ selections = <<>>
    /\ idx = 0
    /\ sel = NoSelection
    /\ outcome = None
    /\ stats = None
    /\ results = <<>>
    /\ calls = <<>>
    /\ pc = "build"
    /\ slip = None
    /\ payload = None

AggAppend ==
    /\ pc = "build"
    /\ Len(results) < MaxAggLen
    /\ \E s \in SelectionStatus : results' = Append(results, AggResult(s))
    /\ UNCHANGED <<selections, idx, sel, outcome, stats, calls, pc, slip, payload>>

AggCall ==
    /\ pc = "build"
    /\ slip' = Some(_aggregate_slip_status(results))
    /\ pc' = "done"
    /\ UNCHANGED <<selections, idx, sel, outcome, stats, results, calls, payload>>

NextAgg == AggAppend \/ AggCall

SpecAgg == InitAgg /\ [][NextAgg]_vars

----------------------------------------------------------------------------
(* The evaluators of the registry applied to single selections.  The       *)
(* selection, the fixture outcome and the statistics are drawn from        *)
(* bounded sets, then the evaluator registered for the market is applied.  *)

\* Goals of the two sides in one score record of the provider: both absent,
\* one absent, or both at most m
GoalPairs(m) ==
    {<<None, None>>, <<Some(0), None>>, <<None, Some(0)>>}
    \cup {<<Some(h), Some(a)>> : h \in 0..m, a \in 0..m}

PenaltyPairs ==
    {<<None, None>>, <<Some(MaxPen), None>>}
    \cup {<<Some(h), Some(a)>> : h \in 0..MaxPen, a \in 0..MaxPen}

\* get_fixture_outcome: home_goals / away_goals are the fulltime score
EvalOutcomes(codes, pens) ==
    {FixtureOutcome(1, st, ft[1], ft[2], ht[1], ht[2], ft[1], ft[2],
                    pen[1], pen[2], None, None) :
        st \in codes, ft \in GoalPairs(MaxGoals), ht \in GoalPairs(MaxGoals), pen \in pens}

MatchWinnerMarkets == {"MATCH_WINNER", "HT_MATCH_WINNER", "SECOND_HALF_MATCH_WINNER"}
DoubleChanceMarkets == {"DOUBLE_CHANCE", "HT_DOUBLE_CHANCE", "SECOND_HALF_DOUBLE_CHANCE"}
DrawNoBetMarkets == {"DRAW_NO_BET", "HT_DRAW_NO_BET", "SECOND_HALF_DRAW_NO_BET"}

ResultSelections ==
    {Selection(1, m, p, None, None, None) :
        m \in MatchWinnerMarkets, p \in {"HOME", "DRAW", "AWAY", "home", "Away", "1X"}}
    \cup {Selection(1, m, p, None, None, None) :
        m \in DoubleChanceMarkets, p \in {"1X", "X2", "12", "1x", "x2", "HOME"}}
    \cup {Selection(1, m, p, None, None, None) :
        m \in DrawNoBetMarkets, p \in {"HOME", "AWAY", "away", "DRAW"}}

ResultOutcomes == EvalOutcomes({"FT", "PEN"}, PenaltyPairs)

EvalInit(s, o, stx) ==
    /\ selections = <<>>
    /\ idx = 0
    /\ sel = s
    /\ outcome = o
    /\ stats = stx
    /\ results = <<>>
    /\ calls = <<>>
    /\ pc = "eval"
    /\ slip = None
    /\ payload = None

InitResult ==
    \E s \in ResultSelections, o \in ResultOutcomes : EvalInit(s, Some(o), None)

\* MARKET_EVALUATORS[sel.market](sel, outcome)
ApplyEvaluator ==
    /\ pc = "eval"
    /\ sel.market \in MARKET_EVALUATORS_keys
    /\ LET r == MARKET_EVALUATORS(sel.market, sel, Val(outcome)) IN
       IF IsRaised(r)
       THEN pc' = "raised" /\ UNCHANGED results
       ELSE results' = <<r>> /\ pc' = "done"
    /\ UNCHANGED <<selections, idx, sel, outcome, stats, calls, slip, payload>>

\* STATS_MARKET_EVALUATORS[sel.market](sel, stats)
ApplyStatsEvaluator ==
    /\ pc = "eval"
    /\ sel.market \in STATS_MARKET_EVALUATORS_keys
    /\ LET r == STATS_MARKET_EVALUATORS(sel.market, sel, stats) IN
       IF IsRaised(r)
       THEN pc' = "raised" /\ UNCHANGED results
       ELSE results' = <<r>> /\ pc' = "done"
    /\ UNCHANGED <<selections, idx, sel, outcome, stats, calls, slip, payload>>

NextResult == ApplyEvaluator

SpecResult == InitResult /\ [][NextResult]_vars

\* Over/under inputs
OUPicks == {"OVER", "UNDER", "under", "BANANA"}

\* Lines from -1/LineScale to m + 1/LineScale, and no line
OULines(m) == {None} \cup {Some(n) : n \in (-1)..(m * LineScale + 1)}

OUTeams == {None, Some("HOME"), Some("AWAY"), Some("home"), Some("BOTH")}

PeriodOUMarkets == {"OVER_UNDER", "HT_OVER_UNDER", "SECOND_HALF_OVER_UNDER"}
TeamOUMarkets == {"TEAM_OVER_UNDER", "TEAM_CORNERS_OVER_UNDER", "TEAM_CARDS_OVER_UNDER"}

OUSelections(markets, m) ==
    {Selection(1, mk, p, ln, tm, None) :
        mk \in markets \ TeamOUMarkets, p \in OUPicks, ln \in OULines(m), tm \in {None}}
    \cup {Selection(1, mk, p, ln, tm, None) :
        mk \in markets \cap TeamOUMarkets, p \in OUPicks, ln \in OULines(m), tm \in OUTeams}

OUOutcomes == EvalOutcomes({"FT"}, {<<None, None>>})

\* One statistic of the two sides: both absent, one absent, or both at most
\* MaxStat
StatPairs ==
    {<<None, None>>, <<Some(0), None>>}
    \cup {<<Some(h), Some(a)>> : h \in 0..MaxStat, a \in 0..MaxStat}

\* The statistics fields a market reads
StatsFieldsOf(market) ==
    CASE market \in {"CORNERS_OVER_UNDER", "TEAM_CORNERS_OVER_UNDER"} ->
            <<"corners_home", "corners_away">>
      [] market \in {"CARDS_OVER_UNDER", "TEAM_CARDS_OVER_UNDER"} ->
            <<"yellow_home", "yellow_away", "red_home", "red_away">>
      [] market = "SHOTS_OVER_UNDER" -> <<"shots_home", "shots_away">>
      [] market = "SHOTS_ON_TARGET_OVER_UNDER" ->
            <<"shots_on_target_home", "shots_on_target_away">>
      [] market = "FOULS_OVER_UNDER" -> <<"fouls_home", "fouls_away">>
      [] market = "OFFSIDES_OVER_UNDER" -> <<"offsides_home", "offsides_away">>

\* get_fixture_statistics: the records that differ in the fields the market
\* reads, and no record at all
StatsInputs(market) ==
    LET f == StatsFieldsOf(market) IN
    {None}
    \cup (IF Len(f) = 2
          THEN {Some(FixtureStatistics(1, (f[1] :> a[1]) @@ (f[2] :> a[2]))) :
                    a \in StatPairs}
          ELSE {Some(FixtureStatistics(1, (f[1] :> a[1]) @@ (f[2] :> a[2])
                                          @@ (f[3] :> b[1]) @@ (f[4] :> b[2]))) :
                    a \in StatPairs, b \in StatPairs})

InitOU ==
    \/ \E s \in OUSelections(PeriodOUMarkets \cup {"TEAM_OVER_UNDER"}, MaxGoals),
          o \in OUOutcomes :
          EvalInit(s, Some(o), None)
    \/ \E mk \in STATS_MARKETS :
          \E s \in OUSelections({mk}, MaxStat), stx \in StatsInputs(mk) :
              EvalInit(s, None, stx)

NextOU == ApplyEvaluator \/ ApplyStatsEvaluator

SpecOU == InitOU /\ [][NextOU]_vars

----------------------------------------------------------------------------
(* The handicap evaluators applied to single selections *)

AsianHandicapMarkets == {"ASIAN_HANDICAP", "HT_ASIAN_HANDICAP"}

\* Handicap lines from -(MaxGoals + 1/LineScale) to MaxGoals + 1/LineScale,
\* and no line
HandicapLines ==
    {None} \cup {Some(n) : n \in (-(MaxGoals * LineScale + 1))..(MaxGoals * LineScale + 1)}

HandicapSelections ==
    {Selection(1, m, p, ln, None, None) :
        m \in AsianHandicapMarkets, p \in {"HOME", "AWAY", "home", "DRAW"},
        ln \in HandicapLines}
    \cup {Selection(1, "HANDICAP_RESULT", p, ln, None, None) :
        p \in {"HOME", "DRAW", "AWAY", "draw", "1X"}, ln \in HandicapLines}

InitHandicap ==
    \E s \in HandicapSelections, o \in OUOutcomes : EvalInit(s, Some(o), None)

NextHandicap == ApplyEvaluator

SpecHandicap == InitHandicap /\ [][NextHandicap]_vars

----------------------------------------------------------------------------
(* Every evaluator of the two registries applied to single selections:     *)
(* picks inside and outside each market's vocabulary, with and without     *)
(* line and team, on outcomes and statistics with present and absent data. *)

YesNoMarkets == {"BTTS", "HT_BTTS", "SECOND_HALF_BTTS", "CLEAN_SHEET", "TO_SCORE_IN_BOTH_HALVES"}
OddEvenMarkets == {"ODD_EVEN", "HT_ODD_EVEN", "SECOND_HALF_ODD_EVEN"}
CorrectScoreMarkets == {"CORRECT_SCORE", "HT_CORRECT_SCORE", "SECOND_HALF_CORRECT_SCORE"}
HomeAwayMarkets == {"WIN_TO_NIL", "TO_WIN_EITHER_HALF", "TO_WIN_BOTH_HALVES"}
ScorerMarkets == {"FIRST_TEAM_TO_SCORE", "LAST_TEAM_TO_SCORE"}
ExactGoalsMarkets == {"EXACT_GOALS", "TEAM_EXACT_GOALS"}

\* Markets settled by comparing a value with the line under pick OVER / UNDER
OverUnderMarkets ==
    PeriodOUMarkets \cup TeamOUMarkets \cup STATS_MARKETS \cup {"BOTH_HALVES_OVER_UNDER"}

\* Markets whose evaluator reads sel.line / sel.team
LineMarkets == OverUnderMarkets \cup AsianHandicapMarkets \cup {"HANDICAP_RESULT", "RESULT_OVER_UNDER"}
TeamMarkets == TeamOUMarkets \cup {"CLEAN_SHEET", "TEAM_EXACT_GOALS", "TO_SCORE_IN_BOTH_HALVES"}

MarketPicks(m) ==
    CASE m \in MatchWinnerMarkets \cup {"HANDICAP_RESULT"} -> {"HOME", "DRAW", "away", "1X"}
      [] m \in DoubleChanceMarkets -> {"1X", "x2", "12", "HOME"}
      [] m \in DrawNoBetMarkets \cup AsianHandicapMarkets \cup HomeAwayMarkets ->
            {"HOME", "away", "DRAW"}
      [] m \in OverUnderMarkets -> {"OVER", "under", "BANANA"}
      [] m \in YesNoMarkets -> {"YES", "no", "MAYBE"}
      [] m \in OddEvenMarkets -> {"ODD", "even", "MAYBE"}
      [] m \in CorrectScoreMarkets -> {"1:0", "0-1", " 1:1", "1:0:0", "a:b", "1", "0:²"}
      [] m \in ExactGoalsMarkets -> {"1", " 0 ", "1+", "2+", "x", "+", ""}
      [] m = "MULTI_GOALS" -> {"0-1", "1-2", "1+", "2", "a-b", "1-2-3"}
      [] m \in ScorerMarkets -> {"HOME", "away", "NONE", "DRAW"}
      [] m = "RESULT_BTTS" -> {"HOME/YES", "x-gg", "2/NO", "HOME", "HOME/MAYBE", "WIN/YES"}
      [] m = "RESULT_OVER_UNDER" -> {"HOME/OVER", "x-u", "2/UNDER", "HOME", "HOME/BANANA"}
      [] m = "MARGIN_OF_VICTORY" -> {"DRAW", "HOME:1", "away 1+", "HOME:x", "BOTH:1", "HOME"}
      [] m = "HT_FT" -> {"HOME/DRAW", "1-x", "X/2", "DRAW/DRAW", "HOME", "A/B"}
      [] m = "HIGHEST_SCORING_HALF" -> {"FIRST", "2nd", "tie", "THIRD"}

MarketLines(m, most) == IF m \in LineMarkets THEN OULines(most) ELSE {None}
MarketTeams(m) == IF m \in TeamMarkets THEN OUTeams ELSE {None}

MarketSelections(m, most) ==
    {Selection(1, m, p, ln, tm, None) :
        p \in MarketPicks(m), ln \in MarketLines(m, most), tm \in MarketTeams(m)}

\* get_fixture_outcome on a finished fixture: the goal events are read only
\* by the first / last scorer markets
Scorers == {None, Some("HOME"), Some("AWAY"), Some("NONE")}

MarketOutcomes(m) ==
    IF m \in ScorerMarkets
    THEN {[o EXCEPT !.first_to_score = f, !.last_to_score = l] :
            o \in {x \in OUOutcomes : x.halftime_home = None /\ x.halftime_away = None},
            f \in Scorers, l \in Scorers}
    ELSE OUOutcomes

InitMarkets ==
    \/ \E m \in MARKET_EVALUATORS_keys :
          \E s \in MarketSelections(m, MaxGoals), o \in MarketOutcomes(m) :
              EvalInit(s, Some(o), None)
    \/ \E m \in STATS_MARKET_EVALUATORS_keys :
          \E s \in MarketSelections(m, MaxStat), stx \in StatsInputs(m) :
              EvalInit(s, None, stx)

NextMarkets == ApplyEvaluator \/ ApplyStatsEvaluator

SpecMarkets == InitMarkets /\ [][NextMarkets]_vars
----------------------------------------------------------------------------
(* service.py: the table endpoint on a request of one row.  The row is     *)
(* mapped to a Selection or rejected; a Selection is then settled by the   *)
(* evaluator its market is registered with, on the outcome and statistics  *)
(* the provider holds for the fixture.                                     *)

\* Market texts of the rows: the canonical name of every market that has an
\* evaluator, and two aliases
TableMarketTexts ==
    MARKET_EVALUATORS_keys \cup STATS_MARKET_EVALUATORS_keys \cup {"corners ou", "team total"}

\* The picks of the rows of a market text
TablePicks(text) ==
    LET m == _normalize_market(text) IN
    IF m \in MARKET_EVALUATORS_keys \cup STATS_MARKET_EVALUATORS_keys
    THEN MarketPicks(m) ELSE {"HOME"}

TableLines == {None, Some(LineScale)}
TableTeams == {None, Some(" home"), Some("AWAY"), Some("BOTH")}

TableRows ==
    UNION {{TableRowIn(1, text, p, ln, tm) :
                p \in TablePicks(text), ln \in TableLines, tm \in TableTeams} :
           text \in TableMarketTexts}

\* What the provider holds: a finished fixture with every score known, and
\* its statistics with every count known
TableOutcomes ==
    {FixtureOutcome(1, "FT", Some(h), Some(a), Some(0), Some(0), Some(h), Some(a),
                    None, None, Some("HOME"), Some("HOME")) : h \in 1..MaxGoals, a \in 0..MaxGoals}

TableStatistics == [f \in StatisticsFields \cup {"fixture_id"} |-> IF f = "fixture_id" THEN 1 ELSE Some(MaxStat)]

InitTable ==
    \E row \in TableRows, o \in TableOutcomes :
        /\ selections = <<>>
        /\ idx = 0
        /\ sel = NoSelection
        /\ outcome = Some(o)
        /\ stats = Some(TableStatistics)
        /\ results = <<>>
        /\ calls = <<>>
        /\ pc = "rows"
        /\ slip = None
        /\ payload = Some(<<row>>)

\* validate_betslip_table, lines 1169-1172: the rows are mapped to selections;
\* a ValueError of _row_to_selection becomes HTTP 422 and nothing is settled
RowsToSelections ==
    /\ pc = "rows"
    /\ LET mapped == [k \in 1..Len(Val(payload)) |-> _row_to_selection(Val(payload)[k])] IN
       IF \E k \in 1..Len(mapped) : IsRaised(mapped[k])
       THEN pc' = "http_422" /\ UNCHANGED <<selections, sel>>
       ELSE selections' = mapped /\ sel' = mapped[1] /\ pc' = "eval"
    /\ UNCHANGED <<idx, outcome, stats, results, calls, slip, payload>>

NextTable == RowsToSelections \/ ApplyEvaluator \/ ApplyStatsEvaluator

SpecTable == InitTable /\ [][NextTable]_vars
----------------------------------------------------------------------------
(* service.py: _normalize_market applied to one market text.  The texts    *)
(* are the canonical names of the taxonomy as they are and as a table may  *)
(* write them: padded, and with blanks or dashes for the underscores.      *)

MarketTexts ==
    UNION {{name, " " \o name \o " ", replace_char(name, "_", " "), replace_char(name, "_", "-")} :
           name \in Market}

InitNormalize ==
    \E text \in MarketTexts :
        /\ selections = <<>>
        /\ idx = 0
        /\ sel = NoSelection
        /\ outcome = None
        /\ stats = None
        /\ results = <<>>
        /\ calls = <<>>
        /\ pc = "market"
        /\ slip = None
        /\ payload = Some(text)

\* market = _normalize_market(row.market); the market is kept in results
NormalizeMarket ==
    /\ pc = "market"
    /\ results' = <<_normalize_market(Val(payload))>>
    /\ pc' = "normalized"
    /\ UNCHANGED <<selections, idx, sel, outcome, stats, calls, slip, payload>>

NextNormalize == NormalizeMarket

SpecNormalize == InitNormalize /\ [][NextNormalize]_vars
----------------------------------------------------------------------------
(* service.py: parse_raw_bet applied to one raw bet string *)

\* Numbers as a slip writes them, with the decimal number each one writes:
\* <<text, <<mantissa, places>>>>
NumberTexts ==
    {<<"0", <<0, 0>>>>, <<"1.5", <<15, 1>>>>, <<"2.50", <<25, 1>>>>,
     <<"10", <<10, 0>>>>, <<"0.25", <<25, 2>>>>}

KnownPrefixes == {_PREFIXED_OU_alternatives[k] : k \in 1..Len(_PREFIXED_OU_alternatives)}

\* <prefix> OVER|UNDER <number>
PrefixedBet(prefix, word, number) == prefix \o " " \o word \o " " \o number

PrefixedBets ==
    {PrefixedBet(p, w, n[1]) : p \in KnownPrefixes, w \in {"OVER", "UNDER"}, n \in NumberTexts}

\* Bets of the other forms parse_raw_bet reads, and strings it cannot read
OtherBets ==
    {"OVER 2.5", "UNDER 1.5", "O2.5", "u 0.5", "ht o1.5", " Corner Over 9.5 ", "HT  UNDER  2.5",
     "1/OVER 2.5", "HOME+UNDER 3", "1&GG", "X/NG", "AH HOME -1.5", "HC 1 -1", "HOME -1.5", "2 +0.5",
     "HT 1", "2H X", "HT 2:1", "2H 1-0", "HT GG", "2H NG", "2:1", "EXACT 3", "EXACTLY 2 GOALS",
     "1-3", "1-3 GOALS", "HOME BY 2", "1 BY 3+", "1/X", "HOME/AWAY", "1", "X", "2", "1X", "X2", "12",
     "GG", "NG", "ODD", "PARI", "HT ODD", "2H EVEN", "DNB 1", "HT DNB 2", "HT 1X", "2H 12",
     "WTN 1", "CS 1", "CS AWAY NO", "FIRST GOAL 1", "0:0", "LAST GOAL 2", "HSH 2", "HSH X",
     "OVER", "HT OVER", "FIRST  HALF OVER 1", "FOO"}

\* Non-negative integers as a slip writes them
CountTexts == {"0", "1", "2", "4", "10"}

\* N-M: two non-negative integers joined by a hyphen
RangeBet(n, m) == n \o "-" \o m

RangeBets == {RangeBet(n, m) : n, m \in CountTexts}

RawBets == PrefixedBets \cup RangeBets \cup OtherBets

InitSmart ==
    \E raw \in RawBets :
        /\ selections = <<>>
        /\ idx = 0
        /\ sel = NoSelection
        /\ outcome = None
        /\ stats = None
        /\ results = <<>>
        /\ calls = <<>>
        /\ pc = "bet"
        /\ slip = None
        /\ payload = Some(raw)

\* parsed = parse_raw_bet(row.bet); the dict is kept in results
ParseRawBet ==
    /\ pc = "bet"
    /\ results' = <<parse_raw_bet(Val(payload))>>
    /\ pc' = "parsed"
    /\ UNCHANGED <<selections, idx, sel, outcome, stats, calls, slip, payload>>

NextSmart == ParseRawBet

SpecSmart == InitSmart /\ [][NextSmart]_vars
----------------------------------------------------------------------------
(* service.py: the smart endpoint on a request of one row whose date and   *)
(* event parse.  The fixture resolver answers with a fixture or with none; *)
(* the bet string is parsed, the Selection built and settled on what the   *)
(* provider holds for the fixture.                                         *)

\* A float line in the 1/LineScale units a Selection holds
Representable(number) == (number[1] * LineScale) % Pow10(number[2]) = 0
LineUnits(number) == (number[1] * LineScale) \div Pow10(number[2])

\* One over/under bet for each prefix family
SmartPrefixedBets ==
    {PrefixedBet(p, "OVER", "1") :
        p \in {"CORNERS", "YC", "SHOTS", "SOT", "FOULS", "OFFSIDES", "TEAM CORNERS",
               "TEAM CARDS", "TEAM GOALS", "TEAM", "HT", "2H", "BH"}}

\* The bets of the rows: every bet whose line, if it has one, a Selection of
\* the model can hold
SmartBets ==
    {b \in SmartPrefixedBets \cup RangeBets \cup OtherBets :
        LET line == parse_raw_bet(b).line IN line # None => Representable(Val(line))}

\* find_fixture: the fixture found, "_swapped" set when the row names the
\* teams in the other order; None when no fixture is found
FoundFixtures ==
    {None, Some([fixture_id |-> 1, _swapped |-> None]),
     Some([fixture_id |-> 1, _swapped |-> Some(TRUE)])}

SmartBetRow(bet, fx) == [bet |-> bet, fx |-> fx]

\* _parse_scorers on goal events that agree with the score
ScorerSides(h, a) ==
    IF h = 0 /\ a = 0 THEN {"NONE"}
    ELSE (IF h > 0 THEN {"HOME"} ELSE {}) \cup (IF a > 0 THEN {"AWAY"} ELSE {})

\* What the provider holds: a finished fixture with every score known, the
\* half-time score within the final score
SmartOutcomes ==
    {FixtureOutcome(1, "FT", Some(h), Some(a), Some(hh), Some(ha), Some(h), Some(a),
                    None, None, Some(first), Some(first)) :
        h \in 0..MaxGoals, a \in 0..MaxGoals, hh \in 0..MaxGoals, ha \in 0..MaxGoals,
        first \in {"HOME", "AWAY", "NONE"}}

CompleteOutcomes ==
    {o \in SmartOutcomes :
        /\ Val(o.halftime_home) <= Val(o.home_goals)
        /\ Val(o.halftime_away) <= Val(o.away_goals)
        /\ Val(o.first_to_score) \in ScorerSides(Val(o.home_goals), Val(o.away_goals))}

InitSmartSlip ==
    \E bet \in SmartBets, fx \in FoundFixtures, o \in CompleteOutcomes :
        /\ selections = <<>>
        /\ idx = 0
        /\ sel = NoSelection
        /\ outcome = Some(o)
        /\ stats = Some(TableStatistics)
        /\ results = <<>>
        /\ calls = <<>>
        /\ pc = "smart_rows"
        /\ slip = None
        /\ payload = Some(<<SmartBetRow(bet, fx)>>)

\* validate_betslip_smart, lines 1221 and 1229-1231: "_swapped" of the fixture found,
\* and the pick with HOME and AWAY exchanged when it is set
is_swapped(fx) == IF fx._swapped = None THEN FALSE ELSE Val(fx._swapped)

flipped_pick(swapped, pick) ==
    IF swapped /\ pick \in {"HOME", "AWAY"}
    THEN (IF pick = "HOME" THEN "AWAY" ELSE "HOME")
    ELSE pick

\* validate_betslip_smart, lines 1233-1241: the Selection built from the
\* parsed bet; the team of the parsed bet is not passed on
selection_of_parsed(fixture_id, parsed, pick) ==
    Selection(fixture_id, _normalize_market(parsed.market), pick,
              IF parsed.line = None THEN None ELSE Some(LineUnits(Val(parsed.line))),
              None, None)

smart_selection_of(fx, parsed) ==
    selection_of_parsed(fx.fixture_id, parsed, flipped_pick(is_swapped(fx), parsed.pick))

\* Mutant: the pick is passed on as parsed, whatever the resolver reports.
smart_selection_unflipped_of(fx, parsed) ==
    selection_of_parsed(fx.fixture_id, parsed, parsed.pick)

smart_selection_never_flipped(row) ==
    smart_selection_unflipped_of(Val(row.fx), parse_raw_bet(row.bet))

\* validate_betslip_smart, lines 1220-1241: the Selection of a row with a
\* fixture
smart_selection(row) == smart_selection_of(Val(row.fx), parse_raw_bet(row.bet))

\* validate_betslip_smart, lines 1196-1243: a row without a fixture becomes
\* HTTP 404 and nothing is settled
SmartRowsToSelections ==
    /\ pc = "smart_rows"
    /\ IF \E k \in 1..Len(Val(payload)) : Val(payload)[k].fx = None
       THEN pc' = "http_404" /\ UNCHANGED <<selections, sel>>
       ELSE LET built == [k \in 1..Len(Val(payload)) |-> smart_selection(Val(payload)[k])] IN
            selections' = built /\ sel' = selections'[1] /\ pc' = "eval"
    /\ UNCHANGED <<idx, outcome, stats, results, calls, slip, payload>>

\* evaluate_betslip, lines 842-870, on a fixture the provider reports final:
\* the result of one selection
SettleOnFinal ==
    /\ pc = "eval"
    /\ is_final_status(Val(outcome).status_short)
    /\ LET r == IF sel.market = UNMAPPED
                THEN SelectionResult(sel.fixture_id, Or(sel.raw_market, sel.market), sel.pick,
                                     NS, "Market is not yet implemented")
                ELSE IF sel.market \in STATS_MARKETS
                THEN evaluate_stats_selection(sel, stats)
                ELSE evaluate_selection(sel, Val(outcome))
       IN  IF IsRaised(r)
           THEN pc' = "raised" /\ UNCHANGED results
           ELSE results' = <<r>> /\ pc' = "done"
    /\ UNCHANGED <<selections, idx, sel, outcome, stats, calls, slip, payload>>

NextSmartSlip == SmartRowsToSelections \/ SettleOnFinal

SpecSmartSlip == InitSmartSlip /\ [][NextSmartSlip]_vars
----------------------------------------------------------------------------
(* evaluator.py: evaluate_betslip on slips of one selection, among them    *)
(* the selections on the comparison markets, which the direct path builds  *)
(* from the market name.                                                   *)

ComparisonMarkets ==
    {"MOST_CORNERS", "MOST_CARDS", "MOST_OFFSIDES", "MOST_FOULS", "MOST_SHOTS",
     "MOST_SHOTS_ON_TARGET"}

ComparisonSelections ==
    {Selection(2, m, p, ln, tm, None) :
        m \in ComparisonMarkets, p \in {"HOME", "DRAW", "AWAY"},
        ln \in {None, Some(LineScale)}, tm \in {None, Some("HOME")}}

InitComparison ==
    /\ selections \in {<<s>> : s \in ComparisonSelections \cup SlipSelections}
    /\ idx = 0
    /\ sel = NoSelection
    /\ outcome = None
    /\ stats = None
    /\ results = <<>>
    /\ calls = <<>>
    /\ pc = "loop"
    /\ slip = None
    /\ payload = None

SpecComparison == InitComparison /\ [][Next]_vars
----------------------------------------------------------------------------
(* evaluator.py: the cross-half evaluators applied to single selections on *)
(* finished fixtures whose half-time and final scores are known.           *)

WinHalfMarkets == {"TO_WIN_EITHER_HALF", "TO_WIN_BOTH_HALVES"}

CrossHalfSelections ==
    UNION {MarketSelections(m, MaxGoals) :
            m \in WinHalfMarkets \cup {"TO_SCORE_IN_BOTH_HALVES", "HIGHEST_SCORING_HALF"}}

\* Half-time goals up to MaxGoals a side, final goals up to twice that
CrossHalfOutcomes ==
    {FixtureOutcome(1, "FT", Some(h), Some(a), Some(hh), Some(ha), Some(h), Some(a),
                    None, None, None, None) :
        h \in 0..(2 * MaxGoals), a \in 0..(2 * MaxGoals), hh \in 0..MaxGoals, ha \in 0..MaxGoals}

InitCrossHalf ==
    \E s \in CrossHalfSelections, o \in CrossHalfOutcomes : EvalInit(s, Some(o), None)

NextCrossHalf == ApplyEvaluator

SpecCrossHalf == InitCrossHalf /\ [][NextCrossHalf]_vars
----------------------------------------------------------------------------
(* api_client.py: get_fixture_outcome derives the first and the last team  *)
(* to score from the events of the fixture; the scorer markets are then    *)
(* settled on the outcome.                                                 *)

\* The ids of the two teams of the fixture, the home team's first
TeamIds == <<1, 2>>

\* Type and detail of the events the provider sends
EventKinds ==
    {<<"Goal", "Normal Goal">>, <<"Goal", "Own Goal">>, <<"Goal", "Missed Penalty">>,
     <<"Var", "Goal Disallowed - offside">>}

\* elapsed and extra: the 10th minute, the 45th, and two minutes into
\* stoppage time of the 45th
EventTimes == {<<Some(10), None>>, <<Some(45), None>>, <<Some(45), Some(2)>>}

Events ==
    {Event(k[1], k[2], t[1], t[2], id) :
        k \in EventKinds, t \in EventTimes, id \in {TeamIds[1], TeamIds[2]}}

EventLists == UNION {[1..n -> Events] : n \in 0..MaxEvents}

ScorerScores == {<<None, None>>, <<Some(0), Some(0)>>, <<Some(1), Some(1)>>}

ScorerSelections ==
    {Selection(1, m, p, None, None, None) : m \in ScorerMarkets, p \in {"HOME", "none"}}

\* The part of the provider's fixture row that get_fixture_outcome reads here
FixtureRow(events, home_goals, away_goals) ==
    [events |-> events, home_team_id |-> TeamIds[1],
     home_goals |-> home_goals, away_goals |-> away_goals]

InitScorers ==
    \E s \in ScorerSelections, events \in EventLists, sc \in ScorerScores :
        /\ selections = <<>>
        /\ idx = 0
        /\ sel = s
        /\ outcome = None
        /\ stats = None
        /\ results = <<>>
        /\ calls = <<>>
        /\ pc = "fetch"
        /\ slip = None
        /\ payload = Some(FixtureRow(events, sc[1], sc[2]))

\* get_fixture_outcome, lines 78-98, on a finished fixture
GetFixtureOutcome ==
    /\ pc = "fetch"
    /\ LET row == Val(payload)
           scorers == _parse_scorers(row.events, row.home_team_id, row.home_goals, row.away_goals)
       IN  outcome' = Some(FixtureOutcome(sel.fixture_id, "FT", row.home_goals, row.away_goals,
                                          None, None, row.home_goals, row.away_goals,
                                          None, None, scorers[1], scorers[2]))
    /\ pc' = "eval"
    /\ UNCHANGED <<selections, idx, sel, stats, results, calls, slip, payload>>

NextScorers == GetFixtureOutcome \/ ApplyEvaluator

SpecScorers == InitScorers /\ [][NextScorers]_vars
----------------------------------------------------------------------------
(* service.py: the direct endpoint on a request of one selection.  The     *)
(* selection is validated, then settled on what the provider holds for the *)
(* fixture.                                                                *)

\* The picks of the selections of a market
DirectPicks(m) ==
    IF m \in MARKET_EVALUATORS_keys \cup STATS_MARKET_EVALUATORS_keys
    THEN MarketPicks(m) ELSE {"HOME"}

DirectInputs ==
    UNION {{SelectionInput(1, m, p, ln, tm) :
                p \in DirectPicks(m), ln \in TableLines, tm \in TableTeams} :
           m \in Market}

InitDirect ==
    \E input \in DirectInputs, o \in TableOutcomes :
        /\ selections = <<>>
        /\ idx = 0
        /\ sel = NoSelection
        /\ outcome = Some(o)
        /\ stats = Some(TableStatistics)
        /\ results = <<>>
        /\ calls = <<>>
        /\ pc = "direct"
        /\ slip = None
        /\ payload = Some(<<input>>)

\* validate_betslip, lines 1155-1161: the request body is validated (a
\* selection that fails makes the request HTTP 422), then the selections are
\* built
ValidateBetslip ==
    /\ pc = "direct"
    /\ LET validated == [k \in 1..Len(Val(payload)) |-> SelectionIn(Val(payload)[k])] IN
       IF \E k \in 1..Len(validated) : IsRaised(validated[k])
       THEN pc' = "http_422" /\ UNCHANGED <<selections, sel>>
       ELSE LET built == [k \in 1..Len(validated) |->
                            Selection(validated[k].fixture_id, validated[k].market,
                                      validated[k].pick, validated[k].line,
                                      validated[k].team, None)]
            IN  selections' = built /\ sel' = built[1] /\ pc' = "eval"
    /\ UNCHANGED <<idx, outcome, stats, results, calls, slip, payload>>

NextDirect == ValidateBetslip \/ SettleOnFinal

SpecDirect == InitDirect /\ [][NextDirect]_vars
----------------------------------------------------------------------------
(* Claims about the aggregator, checked under SpecAgg *)

Aggregated == pc = "done" /\ slip # None

ResultStatuses == statuses_of(results)

\* C1: for every non-empty result list over the eight statuses, one LOST
\* result makes _aggregate_slip_status return LOST, whatever the other
\* statuses and their positions are.
C1_AnyLostIsLost ==
    (Aggregated /\ results # <<>> /\ In("lost", ResultStatuses))
        => slip = Some("lost")

\* C1 witness: a LOST leg in last position behind a PENDING and a
\* NOT_SUPPORTED leg, aggregated to LOST.
C1_Witness ==
    /\ Aggregated
    /\ Len(results) = 3
    /\ ResultStatuses[1] = "pending"
    /\ ResultStatuses[2] = "not_supported"
    /\ ResultStatuses[3] = "lost"
    /\ slip = Some("lost")

\* C2: _aggregate_slip_status returns PENDING exactly when the list is empty
\* or holds no LOST and at least one PENDING or NOT_SUPPORTED; the closing
\* "safe default" return (line 836) is reached for no list of statuses.
C2_PendingExactly ==
    /\ Aggregated =>
          ( slip = Some("pending")
            <=> ( results = <<>>
                  \/ ( ~In("lost", ResultStatuses)
                       /\ ( In("pending", ResultStatuses)
                            \/ In("not_supported", ResultStatuses) ) ) ) )
    /\ _aggregate_slip_return(results).line # 836

\* C2 witness: a NOT_SUPPORTED leg among settled legs, aggregated to PENDING.
C2_Witness ==
    /\ Aggregated
    /\ Len(results) = 3
    /\ ResultStatuses[1] = "won"
    /\ ResultStatuses[2] = "not_supported"
    /\ ResultStatuses[3] = "void"
    /\ slip = Some("pending")

SettledWithoutLoss == {"won", "push", "void", "refund", "cancelled"}

\* C3: a non-empty list whose statuses are all in {WON, PUSH, VOID, REFUND,
\* CANCELLED} aggregates to WON if a leg is WON and to REFUND otherwise; the
\* slip status is never PUSH, VOID or CANCELLED.
C3_WonOrRefund ==
    Aggregated =>
        /\ (results # <<>> /\ All(ResultStatuses, SettledWithoutLoss))
              => slip = Some(IF In("won", ResultStatuses) THEN "won" ELSE "refund")
        /\ Val(slip) \notin {"push", "void", "cancelled"}

\* C3 witness: PUSH, CANCELLED and WON legs aggregated to WON.
C3_Witness ==
    /\ Aggregated
    /\ Len(results) = 3
    /\ ResultStatuses[1] = "push"
    /\ ResultStatuses[2] = "cancelled"
    /\ ResultStatuses[3] = "won"
    /\ slip = Some("won")

----------------------------------------------------------------------------
(* Claims about evaluate_betslip, checked under Spec *)

FinalCodes == {"FT", "AET", "PEN", "AWD", "WO"}

\* The calls of the log made for leg i
CallsOf(i) == {k \in 1..Len(calls) : calls[k].leg = i}
OutcomeCallsOf(i) == {k \in CallsOf(i) : calls[k].fn = "get_fixture_outcome"}
StatsCallsOf(i) == {k \in CallsOf(i) : calls[k].fn = "get_fixture_statistics"}

\* Leg i's fixture was fetched and its status is not a final one
NotFinalLeg(i) ==
    \E k \in OutcomeCallsOf(i) :
        calls[k].returned # None /\ Val(calls[k].returned) \notin FinalCodes

\* A provider call made for leg i raised
FailedLeg(i) == \E k \in CallsOf(i) : calls[k].returned = None

\* C4: in evaluate_betslip a selection is WON, LOST or PUSH only if the
\* fixture fetched for it has a status in {FT, AET, PEN, AWD, WO}; a selection
\* on a recognized market whose fixture status is outside that set is PENDING,
\* and a slip with such a leg is never WON or REFUND.
C4_SettledOnlyWhenFinal ==
    \A i \in 1..Len(results) :
        /\ results[i].status \in {"won", "lost", "push"}
              => \E k \in OutcomeCallsOf(i) :
                    calls[k].returned # None /\ Val(calls[k].returned) \in FinalCodes
        /\ (selections[i].market # "UNMAPPED" /\ NotFinalLeg(i))
              => /\ results[i].status = "pending"
                 /\ pc = "done" => Val(slip) \notin {"won", "refund"}

\* C4 witness: a won leg, then a leg on a fixture in its first half with the
\* home side leading: the leg is PENDING and so is the slip.
C4_Witness ==
    /\ pc = "done"
    /\ Len(results) = 2
    /\ results[1].status = "won"
    /\ selections[2].market = "MATCH_WINNER"
    /\ NotFinalLeg(2)
    /\ Val(outcome).status_short = "1H"
    /\ Val(outcome).home_goals = Some(1)
    /\ Val(outcome).away_goals = Some(0)
    /\ results[2].status = "pending"
    /\ slip = Some("pending")

\* The rows of the table path with the selections built from them
MappedRows == {<<row, _row_to_selection(row)>> : row \in SlipRows}

\* C5: a selection whose market did not resolve is NOT_SUPPORTED with no
\* provider call made for it; when the table path built it, the market
\* reported is the row's market text verbatim; a slip made only of such
\* selections is PENDING.
C5_UnmappedNotSupported ==
    /\ \A i \in 1..Len(results) :
          selections[i].market = "UNMAPPED"
              => /\ results[i].status = "not_supported"
                 /\ CallsOf(i) = {}
                 /\ \A mr \in MappedRows :
                        selections[i] = mr[2] => results[i].market = mr[1].market
    /\ (pc = "done" /\ \A i \in 1..Len(selections) : selections[i].market = "UNMAPPED")
          => slip = Some("pending")

\* C5 witness: a slip of two unrecognized rows of the table path, returned
\* PENDING without a provider call, the market text kept as typed.
C5_Witness ==
    /\ pc = "done"
    /\ Len(results) = 2
    /\ selections[1] = _row_to_selection(TableRowIn(1, "Exotic-Super Market", " x ", None, None))
    /\ selections[2].market = "UNMAPPED"
    /\ results[1].market = "Exotic-Super Market"
    /\ results[1].status = "not_supported"
    /\ results[2].status = "not_supported"
    /\ calls = <<>>
    /\ slip = Some("pending")

\* The status a selection gets from the answers the provider gave for it,
\* whatever the rest of the slip is: c is the call that ended last for it.
SoloStatus(s, c, o, st) ==
    IF s.market = "UNMAPPED" THEN "not_supported"
    ELSE IF c.returned = None THEN "pending"
    ELSE IF c.fn = "get_fixture_outcome"
         THEN IF Val(c.returned) \in FinalCodes
              THEN evaluate_selection(s, Val(o)).status
              ELSE "pending"
    ELSE evaluate_stats_selection(s, st).status

C6_State ==
    /\ pc # "raised"
    /\ pc = "done" \/ ENABLED Next
    /\ \A i \in 1..Len(results) : FailedLeg(i) => results[i].status = "pending"
    /\ (pc = "done" /\ \A i \in 1..Len(selections) : FailedLeg(i)) => slip = Some("pending")

C6_Step ==
    Len(results') # Len(results) =>
        LET j == Len(results')
            c == IF calls' = <<>> THEN Call("", 0, 0, None) ELSE calls'[Len(calls')]
        IN  /\ j = Len(results) + 1
            /\ SubSeq(results', 1, Len(results)) = results
            /\ results'[j].status = SoloStatus(selections[j], c, outcome', stats')

\* C6: when get_fixture_outcome or get_fixture_statistics raises for a
\* selection, that selection is PENDING, evaluate_betslip still returns, and
\* every other selection gets the status that its own provider answers give
\* it; when every leg fails the slip is PENDING.
C6_ProviderErrorIsPending == [](C6_State) /\ [][C6_Step]_vars

\* C6 witness: the fetch of the first leg raised, the second leg won, and
\* the slip was returned.
C6_Witness ==
    /\ pc = "done"
    /\ Len(results) = 2
    /\ FailedLeg(1)
    /\ results[1].status = "pending"
    /\ ~FailedLeg(2)
    /\ results[2].status = "won"
    /\ slip = Some("pending")

\* C7: evaluate_betslip holds one result per selection processed, in input
\* order: after k selections the list has k results, result i carries the
\* fixture_id and the pick of selection i, and the returned list has one
\* result per input selection.
C7_OneResultPerSelection ==
    /\ Len(results) = idx
    /\ idx <= Len(selections)
    /\ pc = "done" => Len(results) = Len(selections)
    /\ \A i \in 1..Len(results) :
          /\ results[i].fixture_id = selections[i].fixture_id
          /\ results[i].pick = selections[i].pick

\* C7 witness: a statistics leg whose statistics fetch raised, then a leg on
\* another fixture that is not final, both reported in order.
C7_Witness ==
    /\ pc = "done"
    /\ Len(results) = 2
    /\ selections[1].market = "CORNERS_OVER_UNDER"
    /\ StatsCallsOf(1) # {}
    /\ FailedLeg(1)
    /\ NotFinalLeg(2)
    /\ selections[1].fixture_id # selections[2].fixture_id
    /\ selections[1].pick # selections[2].pick

----------------------------------------------------------------------------
(* Claims about the evaluators, checked under SpecOU and SpecResult *)

Evaluated == pc = "done" /\ Len(results) = 1

Add2(a, b) == IF a = None \/ b = None THEN None ELSE Some(Val(a) + Val(b))

\* The side a team-scoped selection names
Side == upper(Or(sel.team, ""))

\* The value an over/under market compares with the line, None when the
\* data it is made of is absent: the goals of the period (of both sides for
\* a total, of the named side of a known full-time score for one team's
\* goals), the statistic of both sides or of the named side.
OUValue ==
    LET o == Val(outcome)
        st == Val(stats)
        m == sel.market
    IN  CASE m = "OVER_UNDER" -> Add2(o.home_goals, o.away_goals)
          [] m = "HT_OVER_UNDER" -> Add2(o.halftime_home, o.halftime_away)
          [] m = "SECOND_HALF_OVER_UNDER" ->
                LET ft == Add2(o.home_goals, o.away_goals)
                    ht == Add2(o.halftime_home, o.halftime_away)
                IN  IF ft = None \/ ht = None THEN None ELSE Some(Val(ft) - Val(ht))
          [] m = "TEAM_OVER_UNDER" ->
                IF o.home_goals = None \/ o.away_goals = None THEN None
                ELSE IF Side = "HOME" THEN o.home_goals
                ELSE IF Side = "AWAY" THEN o.away_goals
                ELSE None
          [] m = "CORNERS_OVER_UNDER" /\ stats # None -> Add2(st.corners_home, st.corners_away)
          [] m = "SHOTS_OVER_UNDER" /\ stats # None -> Add2(st.shots_home, st.shots_away)
          [] m = "SHOTS_ON_TARGET_OVER_UNDER" /\ stats # None ->
                Add2(st.shots_on_target_home, st.shots_on_target_away)
          [] m = "FOULS_OVER_UNDER" /\ stats # None -> Add2(st.fouls_home, st.fouls_away)
          [] m = "OFFSIDES_OVER_UNDER" /\ stats # None ->
                Add2(st.offsides_home, st.offsides_away)
          [] m = "CARDS_OVER_UNDER" /\ stats # None ->
                Add2(Add2(st.yellow_home, st.yellow_away), Add2(st.red_home, st.red_away))
          [] m = "TEAM_CORNERS_OVER_UNDER" /\ stats # None ->
                IF Side = "HOME" THEN st.corners_home
                ELSE IF Side = "AWAY" THEN st.corners_away
                ELSE None
          [] m = "TEAM_CARDS_OVER_UNDER" /\ stats # None ->
                IF Side = "HOME" THEN Add2(st.yellow_home, st.red_home)
                ELSE IF Side = "AWAY" THEN Add2(st.yellow_away, st.red_away)
                ELSE None
          [] OTHER -> None

\* C8: for every over/under market on a total, one team's goals, a
\* statistics total or a team statistic, when the value and the line are
\* present: value = line gives PUSH whatever the pick is; otherwise pick OVER
\* is WON iff value > line, pick UNDER is WON iff value < line, and LOST in
\* the other case.
C8_OverUnderPush ==
    (Evaluated /\ sel.line # None /\ OUValue # None) =>
        LET v == Val(OUValue) * LineScale
            line == Val(sel.line)
            status == results[1].status
        IN  /\ v = line => status = "push"
            /\ (v # line /\ upper(sel.pick) = "OVER")
                  => status = IF v > line THEN "won" ELSE "lost"
            /\ (v # line /\ upper(sel.pick) = "UNDER")
                  => status = IF v < line THEN "won" ELSE "lost"

\* C8 witness: the home side's cards (one yellow, no red) equal the line
\* 1.0 and the pick UNDER is settled PUSH.
C8_Witness ==
    /\ Evaluated
    /\ sel.market = "TEAM_CARDS_OVER_UNDER"
    /\ sel.team = Some("HOME")
    /\ sel.pick = "UNDER"
    /\ sel.line = Some(LineScale)
    /\ stats # None
    /\ Val(stats).yellow_home = Some(1)
    /\ Val(stats).red_home = Some(0)
    /\ results[1].status = "push"

\* The period a market's name stands for
PeriodOf(market) ==
    IF Len(market) > 3 /\ SubSeq(market, 1, 3) = "HT_" THEN "HT"
    ELSE IF Len(market) > 12 /\ SubSeq(market, 1, 12) = "SECOND_HALF_" THEN "2H"
    ELSE "FT"

\* The goals of the two sides in the period of a period market, None when a goal count it needs is absent
PeriodGoals(market, o) ==
    LET ft == IF o.home_goals = None \/ o.away_goals = None THEN None
              ELSE Some(<<Val(o.home_goals), Val(o.away_goals)>>)
        ht == IF o.halftime_home = None \/ o.halftime_away = None THEN None
              ELSE Some(<<Val(o.halftime_home), Val(o.halftime_away)>>)
    IN  IF PeriodOf(market) = "FT" THEN ft
        ELSE IF PeriodOf(market) = "HT" THEN ht
        ELSE IF ft = None \/ ht = None THEN None
        ELSE Some(<<Val(ft)[1] - Val(ht)[1], Val(ft)[2] - Val(ht)[2]>>)

Category(g) == IF g[1] > g[2] THEN "HOME" ELSE IF g[1] < g[2] THEN "AWAY" ELSE "DRAW"

PickSet(pick) ==
    IF pick = "1X" THEN {"HOME", "DRAW"}
    ELSE IF pick = "X2" THEN {"DRAW", "AWAY"}
    ELSE {"HOME", "AWAY"}

\* C9: for double chance in FT, HT and 2H with a known period score and a
\* pick among 1X, X2, 12, the status is WON iff the category of the period
\* score is in the pick's set (1X = {HOME, DRAW}, X2 = {DRAW, AWAY},
\* 12 = {HOME, AWAY}) and LOST otherwise.
C9_DoubleChance ==
    (Evaluated /\ sel.market \in DoubleChanceMarkets
       /\ PeriodGoals(sel.market, Val(outcome)) # None
       /\ upper(sel.pick) \in {"1X", "X2", "12"}) =>
        results[1].status =
            IF Category(Val(PeriodGoals(sel.market, Val(outcome)))) \in PickSet(upper(sel.pick))
            THEN "won" ELSE "lost"

\* C9 witness: the away side won the second half (1:1 after 1:0) and the
\* second-half pick X2 is WON.
C9_Witness ==
    /\ Evaluated
    /\ sel.market = "SECOND_HALF_DOUBLE_CHANCE"
    /\ sel.pick = "X2"
    /\ PeriodGoals(sel.market, Val(outcome)) = Some(<<0, 1>>)
    /\ results[1].status = "won"

\* The status the evaluator of the selection's market gives to pick p on the
\* fixture of the state
StatusOfPick(p) ==
    MARKET_EVALUATORS(sel.market, [sel EXCEPT !.pick = p], Val(outcome)).status

\* C10: for match winner in FT, HT and 2H with a known period score, exactly
\* one of the picks HOME, DRAW, AWAY is WON and the other two are LOST; a
\* valid pick is WON or LOST, never PUSH, PENDING or NOT_SUPPORTED.
C10_MatchWinnerExactlyOne ==
    (Evaluated /\ sel.market \in MatchWinnerMarkets
       /\ PeriodGoals(sel.market, Val(outcome)) # None) =>
        /\ Cardinality({p \in {"HOME", "DRAW", "AWAY"} : StatusOfPick(p) = "won"}) = 1
        /\ Cardinality({p \in {"HOME", "DRAW", "AWAY"} : StatusOfPick(p) = "lost"}) = 2
        /\ upper(sel.pick) \in {"HOME", "DRAW", "AWAY"}
              => /\ results[1].status \in {"won", "lost"}
                 /\ results[1].status = StatusOfPick(upper(sel.pick))

\* C10 witness: level at half time, the half-time pick DRAW is WON.
C10_Witness ==
    /\ Evaluated
    /\ sel.market = "HT_MATCH_WINNER"
    /\ sel.pick = "DRAW"
    /\ PeriodGoals(sel.market, Val(outcome)) = Some(<<1, 1>>)
    /\ results[1].status = "won"

----------------------------------------------------------------------------
(* Claims about the shootout, checked under SpecResult *)

\* The fixture of the state went to a shootout after a level full-time score
LevelAfterShootout ==
    LET o == Val(outcome) IN
    /\ o.status_short = "PEN"
    /\ o.home_goals # None /\ o.away_goals # None
    /\ Val(o.home_goals) = Val(o.away_goals)

\* The shootout scores are both present and different
ShootoutDecisive ==
    LET o == Val(outcome) IN
    /\ o.penalty_home # None /\ o.penalty_away # None
    /\ Val(o.penalty_home) # Val(o.penalty_away)

ShootoutWinner ==
    IF Val(Val(outcome).penalty_home) > Val(Val(outcome).penalty_away) THEN "HOME" ELSE "AWAY"

ValidMatchWinnerPick == upper(sel.pick) \in {"HOME", "DRAW", "AWAY"}

WonIff(cond) == results[1].status = IF cond THEN "won" ELSE "lost"

\* C11: full-time MATCH_WINNER on a level score with status PEN: with both
\* shootout scores present and different the shootout winner's pick is WON,
\* DRAW and the other side are LOST; with shootout scores missing or equal
\* pick DRAW is WON.  HT and 2H match winner settle on the period's goals
\* whatever the shootout score is.
C11_ShootoutDecidesMatchWinner ==
    (Evaluated /\ sel.market \in MatchWinnerMarkets /\ ValidMatchWinnerPick
       /\ PeriodGoals(sel.market, Val(outcome)) # None) =>
        IF sel.market = "MATCH_WINNER" /\ LevelAfterShootout
        THEN IF ShootoutDecisive
             THEN WonIff(upper(sel.pick) = ShootoutWinner)
             ELSE WonIff(upper(sel.pick) = "DRAW")
        ELSE sel.market # "MATCH_WINNER" =>
                WonIff(upper(sel.pick) = Category(Val(PeriodGoals(sel.market, Val(outcome)))))

\* C11 witness: 1:1 after extra time, shootout 0:1, the full-time pick AWAY
\* is WON.
C11_Witness ==
    /\ Evaluated
    /\ sel.market = "MATCH_WINNER"
    /\ sel.pick = "AWAY"
    /\ LevelAfterShootout
    /\ Val(outcome).home_goals = Some(1)
    /\ Val(outcome).penalty_home = Some(0)
    /\ Val(outcome).penalty_away = Some(1)
    /\ results[1].status = "won"

\* C12: full-time DOUBLE_CHANCE and DRAW_NO_BET on a level score with status
\* PEN and a decisive shootout settle on the shootout winner: DRAW_NO_BET is
\* WON on the winner and LOST on the loser, DOUBLE_CHANCE is WON iff the
\* shootout winner is in the pick's set.
C12_ShootoutDecidesDoubleChanceAndDrawNoBet ==
    (Evaluated /\ LevelAfterShootout /\ ShootoutDecisive) =>
        /\ (sel.market = "DRAW_NO_BET" /\ upper(sel.pick) \in {"HOME", "AWAY"})
              => WonIff(upper(sel.pick) = ShootoutWinner)
        /\ (sel.market = "DOUBLE_CHANCE" /\ upper(sel.pick) \in {"1X", "X2", "12"})
              => WonIff(ShootoutWinner \in PickSet(upper(sel.pick)))

\* C13: draw no bet in FT, HT and 2H with pick HOME or AWAY and a known period
\* score, on a fixture without a shootout: a level score is PUSH, otherwise
\* the pick is WON iff it names the side with more goals and LOST otherwise;
\* a slip of one such PUSH leg aggregates to REFUND.
C13_DrawNoBet ==
    (Evaluated /\ sel.market \in DrawNoBetMarkets
       /\ upper(sel.pick) \in {"HOME", "AWAY"}
       /\ Val(outcome).status_short # "PEN"
       /\ PeriodGoals(sel.market, Val(outcome)) # None) =>
        LET g == Val(PeriodGoals(sel.market, Val(outcome))) IN
        IF g[1] = g[2]
        THEN /\ results[1].status = "push"
             /\ _aggregate_slip_status(results) = "refund"
        ELSE WonIff(upper(sel.pick) = Category(g))

\* C13 witness: the second half ended level (1:0 after 1:0) and the
\* second-half pick HOME is PUSH.
C13_Witness ==
    /\ Evaluated
    /\ sel.market = "SECOND_HALF_DRAW_NO_BET"
    /\ sel.pick = "HOME"
    /\ Val(outcome).status_short = "FT"
    /\ Val(outcome).home_goals = Some(1)
    /\ Val(outcome).halftime_home = Some(1)
    /\ PeriodGoals(sel.market, Val(outcome)) = Some(<<0, 0>>)
    /\ results[1].status = "push"

----------------------------------------------------------------------------
(* Claims about the handicap markets, checked under SpecHandicap *)

\* The status the evaluator of the selection's market gives to pick p with
\* line ln on the fixture of the state
StatusOfPickLine(p, ln) ==
    MARKET_EVALUATORS(sel.market, [sel EXCEPT !.pick = p, !.line = ln], Val(outcome)).status

\* C14: for every known period score and every line L, ASIAN_HANDICAP with
\* pick HOME and line L is settled with the same status (WON, LOST or PUSH)
\* as with pick AWAY and line -L.
C14_AsianHandicapSymmetry ==
    (Evaluated /\ sel.market \in AsianHandicapMarkets /\ sel.line # None
       /\ PeriodGoals(sel.market, Val(outcome)) # None) =>
        LET minus == Some(-Val(sel.line)) IN
        /\ upper(sel.pick) = "HOME"
              => /\ results[1].status = StatusOfPickLine("AWAY", minus)
                 /\ results[1].status \in {"won", "lost", "push"}
        /\ upper(sel.pick) = "AWAY"
              => /\ results[1].status = StatusOfPickLine("HOME", minus)
                 /\ results[1].status \in {"won", "lost", "push"}

\* The status of the other side of a two-way bet
Opposite(status) ==
    IF status = "won" THEN "lost" ELSE IF status = "lost" THEN "won" ELSE status

\* C14, as the code settles it: for every known period score and every line
\* L, ASIAN_HANDICAP with pick HOME and line L is PUSH iff pick AWAY with
\* line -L is PUSH, and otherwise WON iff pick AWAY with line -L is LOST.
C14_AsianHandicapOpposite ==
    (Evaluated /\ sel.market \in AsianHandicapMarkets /\ sel.line # None
       /\ PeriodGoals(sel.market, Val(outcome)) # None) =>
        LET minus == Some(-Val(sel.line)) IN
        /\ upper(sel.pick) = "HOME"
              => /\ results[1].status = Opposite(StatusOfPickLine("AWAY", minus))
                 /\ results[1].status \in {"won", "lost", "push"}
        /\ upper(sel.pick) = "AWAY"
              => /\ results[1].status = Opposite(StatusOfPickLine("HOME", minus))
                 /\ results[1].status \in {"won", "lost", "push"}

\* C14 witness: 0:0 with pick HOME and the smallest positive line is WON,
\* pick AWAY with the opposite line is LOST.
C14_Witness ==
    /\ Evaluated
    /\ sel.market = "ASIAN_HANDICAP"
    /\ sel.pick = "HOME"
    /\ sel.line = Some(1)
    /\ Val(outcome).home_goals = Some(0)
    /\ Val(outcome).away_goals = Some(0)
    /\ results[1].status = "won"
    /\ StatusOfPickLine("AWAY", Some(-1)) = "lost"

\* C15: HANDICAP_RESULT adds the line to the home goals only: the pick is
\* WON iff it is the category of adjusted home goals against away goals and
\* LOST otherwise, never PUSH; pick DRAW is WON exactly when the adjusted
\* home goals equal the away goals.
C15_HandicapResultThreeWay ==
    (Evaluated /\ sel.market = "HANDICAP_RESULT" /\ sel.line # None
       /\ upper(sel.pick) \in {"HOME", "DRAW", "AWAY"}) =>
        LET adjusted == Val(Val(outcome).home_goals) * LineScale + Val(sel.line)
            away == Val(Val(outcome).away_goals) * LineScale
        IN  /\ WonIff(upper(sel.pick) = Category(<<adjusted, away>>))
            /\ upper(sel.pick) = "DRAW" => (results[1].status = "won" <=> adjusted = away)

\* C15 witness: 1:0 with line -1 leaves the adjusted score level and pick
\* DRAW is WON.
C15_Witness ==
    /\ Evaluated
    /\ sel.market = "HANDICAP_RESULT"
    /\ sel.pick = "DRAW"
    /\ sel.line = Some(-LineScale)
    /\ Val(outcome).home_goals = Some(1)
    /\ Val(outcome).away_goals = Some(0)
    /\ results[1].status = "won"

----------------------------------------------------------------------------
(* Claims about all the evaluators, checked under SpecMarkets *)

BttsMarkets == {"BTTS", "HT_BTTS", "SECOND_HALF_BTTS"}

\* The markets settled on the score of one period
PeriodMarkets ==
    MatchWinnerMarkets \cup DoubleChanceMarkets \cup DrawNoBetMarkets \cup PeriodOUMarkets
    \cup BttsMarkets \cup OddEvenMarkets \cup CorrectScoreMarkets \cup AsianHandicapMarkets

CrossHalfMarkets ==
    {"TO_SCORE_IN_BOTH_HALVES", "TO_WIN_EITHER_HALF", "TO_WIN_BOTH_HALVES",
     "HIGHEST_SCORING_HALF", "BOTH_HALVES_OVER_UNDER"}

FulltimeMissing == Val(outcome).home_goals = None \/ Val(outcome).away_goals = None
HalftimeMissing == Val(outcome).halftime_home = None \/ Val(outcome).halftime_away = None

\* The score the market of sel is settled on is not known
PeriodScoreMissing ==
    IF sel.market \in CrossHalfMarkets THEN FulltimeMissing \/ HalftimeMissing
    ELSE CASE PeriodOf(sel.market) = "FT" -> FulltimeMissing
           [] PeriodOf(sel.market) = "HT" -> HalftimeMissing
           [] PeriodOf(sel.market) = "2H" -> FulltimeMissing \/ HalftimeMissing

\* A statistics market has no record, or a field of its compared value is
\* absent (for a team market: a field of the side the selection names)
StatisticsMissing ==
    \/ stats = None
    \/ /\ sel.market \in TeamOUMarkets => Side \in {"HOME", "AWAY"}
       /\ OUValue = None

\* C16: when the score of the period is missing (for the second half: the
\* fulltime or the halftime score), every period market and every cross-half
\* market is PENDING, and when the statistics record or a statistic that
\* enters the compared value is missing, the statistics market is PENDING,
\* whatever the pick, the line and the rest of the selection are.
C16_MissingDataIsPending ==
    LET missing ==
            \/ sel.market \in PeriodMarkets \cup CrossHalfMarkets /\ PeriodScoreMissing
            \/ sel.market \in STATS_MARKETS /\ StatisticsMissing
    IN  /\ (pc = "done" /\ missing) => results[1].status = PENDING
        /\ (pc = "raised") => ~missing

\* A second-half market with a known fulltime score and no halftime score,
\* an unknown pick and no line, has been evaluated
C16_Witness ==
    /\ Evaluated
    /\ sel.market = "SECOND_HALF_OVER_UNDER"
    /\ sel.pick = "BANANA" /\ sel.line = None
    /\ ~FulltimeMissing /\ HalftimeMissing
    /\ results[1].status = PENDING

\* The picks a market with a fixed vocabulary settles, in upper case
Vocabulary(m) ==
    CASE m \in MatchWinnerMarkets \cup {"HANDICAP_RESULT"} -> {"HOME", "DRAW", "AWAY"}
      [] m \in DoubleChanceMarkets -> {"1X", "X2", "12"}
      [] m \in DrawNoBetMarkets \cup AsianHandicapMarkets \cup HomeAwayMarkets -> {"HOME", "AWAY"}
      [] m \in OverUnderMarkets -> {"OVER", "UNDER"}
      [] m \in YesNoMarkets -> {"YES", "NO"}
      [] m \in OddEvenMarkets -> {"ODD", "EVEN"}
      [] m \in ScorerMarkets -> {"HOME", "AWAY", "NONE"}
      [] m = "HIGHEST_SCORING_HALF" -> {"FIRST", "SECOND", "EQUAL", "1ST", "2ND", "TIE"}

StructuredMarkets ==
    CorrectScoreMarkets \cup ExactGoalsMarkets
    \cup {"MULTI_GOALS", "RESULT_BTTS", "RESULT_OVER_UNDER", "MARGIN_OF_VICTORY", "HT_FT"}

\* A non-negative integer written in decimal digits
IsCount(x) == x # "" /\ \A k \in 1..Len(x) : Char(x, k) \in Digits

\* "N" or "N+"
IsCountOrThreshold(x) ==
    IsCount(x) \/ (endswith(x, "+") /\ IsCount(SubSeq(x, 1, Len(x) - 1)))

\* The two tokens of a combined pick written A/B or A-B, <<>> otherwise
ComboTokens(pick) ==
    LET parts == split(replace_char(upper(strip(pick)), "-", "/"), "/") IN
    IF Len(parts) = 2 THEN parts ELSE <<>>

\* The pick of a structured market can be parsed
Parseable(m, pick) ==
    CASE m \in CorrectScoreMarkets ->
            LET parts == split(replace_char(strip(pick), "-", ":"), ":") IN
            Len(parts) = 2 /\ IsCount(parts[1]) /\ IsCount(parts[2])
      [] m \in ExactGoalsMarkets -> IsCountOrThreshold(strip(pick))
      [] m = "MULTI_GOALS" ->
            LET t == strip(pick)
                parts == split(t, "-")
            IN  \/ endswith(t, "+") /\ IsCount(SubSeq(t, 1, Len(t) - 1))
                \/ Len(parts) = 2 /\ IsCount(parts[1]) /\ IsCount(parts[2])
      [] m = "RESULT_BTTS" ->
            LET t == ComboTokens(pick) IN
            t # <<>> /\ t[1] \in Keys(label_map) /\ t[2] \in Keys(btts_map)
      [] m = "RESULT_OVER_UNDER" ->
            LET t == ComboTokens(pick) IN
            t # <<>> /\ t[1] \in Keys(label_map) /\ t[2] \in Keys(ou_map)
      [] m = "HT_FT" ->
            LET t == ComboTokens(pick) IN
            t # <<>> /\ t[1] \in Keys(label_map) /\ t[2] \in Keys(label_map)
      [] m = "MARGIN_OF_VICTORY" ->
            LET t == upper(strip(pick))
                parts == split(replace_char(t, " ", ":"), ":")
            IN  \/ t = "DRAW"
                \/ Len(parts) = 2 /\ parts[1] \in {"HOME", "AWAY"} /\ IsCountOrThreshold(parts[2])

\* The selection is invalid for its market: pick outside the vocabulary,
\* unparseable structured pick, or missing required line or team
InvalidSelection ==
    \/ sel.market \in StructuredMarkets /\ ~Parseable(sel.market, sel.pick)
    \/ sel.market \notin StructuredMarkets /\ upper(sel.pick) \notin Vocabulary(sel.market)
    \/ sel.market \in LineMarkets /\ sel.line = None
    \/ sel.market \in TeamMarkets /\ Side \notin {"HOME", "AWAY"}

\* Every item of match data the market of sel can read is present
DataAvailable ==
    IF sel.market \in STATS_MARKETS
    THEN /\ stats # None
         /\ LET f == StatsFieldsOf(sel.market) IN
            \A k \in 1..Len(f) : Val(stats)[f[k]] # None
    ELSE /\ outcome # None
         /\ ~FulltimeMissing /\ ~HalftimeMissing
         /\ sel.market = "FIRST_TEAM_TO_SCORE" => Val(outcome).first_to_score # None
         /\ sel.market = "LAST_TEAM_TO_SCORE" => Val(outcome).last_to_score # None

\* C17: for every evaluator, when the match data is available and the
\* selection is invalid for its market, the evaluator returns NOT_SUPPORTED:
\* it does not raise and does not settle the selection WON, LOST or PUSH.
C17_InvalidSelectionNotSupported ==
    (pc \in {"done", "raised"} /\ DataAvailable /\ InvalidSelection) =>
        pc = "done" /\ results[1].status = NOT_SUPPORTED
----------------------------------------------------------------------------
(* Claims about the table path, checked under SpecTable *)

\* The row of the request and the market its text resolves to
Row == Val(payload)[1]
RowMarket == _normalize_market(Row.market)
RowSide == upper(strip(Or(Row.team, "")))

\* The row lacks the line or the team the evaluator of its market reads
RowLacksLineOrTeam ==
    \/ RowMarket \in LineMarkets /\ Row.line = None
    \/ RowMarket \in TeamMarkets /\ RowSide \notin {"HOME", "AWAY"}

RequiresReasons == {"Requires line", "Requires team=HOME or team=AWAY"}

\* C18: on the table path a row whose resolved market requires a line and
\* has none, or requires a team and names none of HOME and AWAY, is rejected
\* with a validation error and nothing is settled; every Selection built
\* for a recognized market carries the line and the team its evaluator
\* requires, and no evaluator answers "Requires line" or "Requires team".
C18_TableRowsCarryLineAndTeam ==
    /\ (pc # "rows" /\ RowMarket # UNMAPPED /\ RowLacksLineOrTeam) =>
            pc = "http_422" /\ results = <<>>
    /\ (pc \in {"eval", "done", "raised"} /\ sel.market # UNMAPPED) =>
            /\ sel.market \in LineMarkets => sel.line # None
            /\ sel.market \in TeamMarkets => sel.team \in {Some("HOME"), Some("AWAY")}
    /\ pc = "done" => results[1].reason \notin RequiresReasons

\* A team market row with a line and a team outside HOME / AWAY has been
\* rejected, and a row with line and team has been settled
C18_Witness ==
    /\ pc = "http_422"
    /\ RowMarket = "TEAM_CORNERS_OVER_UNDER"
    /\ Row.pick = "under" /\ Row.line # None /\ Row.team = Some("BOTH")

C18_WitnessSettled ==
    /\ Evaluated
    /\ sel.market = "TEAM_OVER_UNDER" /\ sel.team = Some("HOME") /\ sel.line # None
    /\ results[1].status \in {WON, LOST, "push"}
----------------------------------------------------------------------------
(* Claims about the market resolver, checked under SpecNormalize *)

\* C19: for every market of the taxonomy other than UNMAPPED,
\* _normalize_market applied to the canonical name of the market returns
\* that market.
C19_CanonicalNameResolvesToItself ==
    (pc = "normalized" /\ Val(payload) \in Market \ {UNMAPPED}) => results[1] = Val(payload)
----------------------------------------------------------------------------
(* Claims about parse_raw_bet, checked under SpecSmart *)

\* The market a prefix of an over/under bet names
PrefixMarket(prefix) ==
    IF StartsWith(prefix, "TEAM CORNER") THEN "TEAM_CORNERS_OVER_UNDER"
    ELSE IF StartsWith(prefix, "TEAM CARD") THEN "TEAM_CARDS_OVER_UNDER"
    ELSE IF StartsWith(prefix, "TEAM") THEN "TEAM_OVER_UNDER"
    ELSE IF prefix \in {"CORNER", "CORNERS", "CRN"} THEN "CORNERS_OVER_UNDER"
    ELSE IF prefix \in {"CARD", "CARDS", "YC"} \/ StartsWith(prefix, "YELLOW") THEN "CARDS_OVER_UNDER"
    ELSE IF prefix \in {"SOT", "SHOTS ON TARGET"} THEN "SHOTS_ON_TARGET_OVER_UNDER"
    ELSE IF prefix \in {"SHOT", "SHOTS"} THEN "SHOTS_OVER_UNDER"
    ELSE IF prefix \in {"FOUL", "FOULS"} THEN "FOULS_OVER_UNDER"
    ELSE IF prefix \in {"OFFSIDE", "OFFSIDES"} THEN "OFFSIDES_OVER_UNDER"
    ELSE IF prefix \in {"1H", "HT", "1ST HALF", "FIRST HALF"} THEN "HT_OVER_UNDER"
    ELSE IF prefix \in {"2H", "2ND HALF", "SECOND HALF"} THEN "SECOND_HALF_OVER_UNDER"
    ELSE IF prefix \in {"BOTH HALVES", "BH"} THEN "BOTH_HALVES_OVER_UNDER"
    ELSE UNMAPPED

\* C20: parse_raw_bet tries the prefixed over/under pattern before the bare
\* one: every string <known prefix> OVER|UNDER <number> resolves to the
\* market of its prefix, with the word as pick and the number as line, and
\* never to OVER_UNDER ("HT OVER 1.5" gives HT_OVER_UNDER / OVER / 1.5).
C20_PrefixedOverUnderFirst ==
    pc = "parsed" =>
        \A p \in KnownPrefixes, w \in {"OVER", "UNDER"}, n \in NumberTexts :
            Val(payload) = PrefixedBet(p, w, n[1]) =>
                /\ results[1].market = PrefixMarket(p)
                /\ results[1].market \notin {"OVER_UNDER", UNMAPPED}
                /\ results[1].pick = w
                /\ results[1].line = Some(n[2])

\* "HT OVER 1.5" has been parsed to HT_OVER_UNDER / OVER / 1.5
C20_Witness ==
    /\ pc = "parsed"
    /\ Val(payload) = "HT OVER 1.5"
    /\ results[1].market = "HT_OVER_UNDER"
    /\ results[1].pick = "OVER"
    /\ results[1].line = Some(<<15, 1>>)

\* C21: parse_raw_bet resolves a bare range N-M (two non-negative integers
\* joined by a hyphen, "2-4") to market MULTI_GOALS with pick "N-M".
C21_BareRangeIsMultiGoals ==
    pc = "parsed" =>
        \A n, m \in CountTexts :
            Val(payload) = RangeBet(n, m) =>
                /\ results[1].market = "MULTI_GOALS"
                /\ results[1].pick = RangeBet(n, m)
----------------------------------------------------------------------------
(* Claims about the smart path, checked under SpecSmartSlip *)

\* The row of the request, the fixture found for it and what its bet parses to
SmartRow == Val(payload)[1]
SmartFixture == Val(SmartRow.fx)
SmartSwapped == SmartFixture._swapped = Some(TRUE)
SmartParsed == parse_raw_bet(SmartRow.bet)

\* The side that won the match
MatchWinnerSide ==
    LET o == Val(outcome) IN
    IF Val(o.home_goals) > Val(o.away_goals) THEN "HOME"
    ELSE IF Val(o.home_goals) < Val(o.away_goals) THEN "AWAY"
    ELSE "DRAW"

\* C22: on the smart path, when the fixture resolver reports that home and
\* away were swapped, a parsed pick HOME is settled as AWAY and a parsed pick
\* AWAY as HOME; when the flag is not set the pick is passed unchanged.  A
\* match winner bet on the first team named is then WON iff the side that
\* team plays on won.
C22_SwappedFlipsHomeAway ==
    pc \in {"eval", "done", "raised"} =>
        LET expected == IF SmartSwapped /\ SmartParsed.pick = "HOME" THEN "AWAY"
                        ELSE IF SmartSwapped /\ SmartParsed.pick = "AWAY" THEN "HOME"
                        ELSE SmartParsed.pick
        IN  /\ sel.pick = expected
            /\ selections[1].pick = expected
            /\ pc = "done" =>
                /\ results[1].pick = expected
                /\ (SmartParsed.market = "MATCH_WINNER" /\ SmartParsed.pick \in {"HOME", "AWAY"}) =>
                        (results[1].status = WON <=> MatchWinnerSide = expected)

\* "1" on a fixture found with the teams swapped has been settled as AWAY
\* and WON, the away side having won
C22_Witness ==
    /\ pc = "done"
    /\ SmartSwapped
    /\ SmartRow.bet = "1"
    /\ SmartParsed.pick = "HOME"
    /\ sel.pick = "AWAY"
    /\ MatchWinnerSide = "AWAY"
    /\ results[1].status = WON
----------------------------------------------------------------------------
(* Claims about the comparison markets, checked under SpecComparison *)

\* C23: a selection on any of the comparison markets MOST_CORNERS,
\* MOST_CARDS, MOST_OFFSIDES, MOST_FOULS, MOST_SHOTS, MOST_SHOTS_ON_TARGET is
\* never settled WON, LOST or PUSH; on a final fixture with goals present it
\* is NOT_SUPPORTED.
C23_ComparisonMarketsNotSupported ==
    \A k \in 1..Len(results) :
        selections[k].market \in ComparisonMarkets =>
            /\ results[k].status \notin {WON, LOST, PUSH}
            /\ (/\ outcome # None
                /\ is_final_status(Val(outcome).status_short)
                /\ Val(outcome).home_goals # None
                /\ Val(outcome).away_goals # None) => results[k].status = NOT_SUPPORTED

\* A MOST_CORNERS selection on a finished 1:0 fixture has been reported
\* NOT_SUPPORTED
C23_Witness ==
    /\ pc = "done"
    /\ outcome # None
    /\ Len(results) = 1
    /\ selections[1].market = "MOST_CORNERS"
    /\ selections[1].pick = "HOME"
    /\ Val(outcome).status_short = "FT"
    /\ Val(outcome).home_goals = Some(1) /\ Val(outcome).away_goals = Some(0)
    /\ results[1].status = NOT_SUPPORTED
----------------------------------------------------------------------------
(* Claims about the cross-half markets, checked under SpecCrossHalf *)

\* Goals of a side (1 home, 2 away) in the first half and in the second
\* half, the second half being the final score less the half-time score
FirstHalfGoals(side) ==
    IF side = 1 THEN Val(Val(outcome).halftime_home) ELSE Val(Val(outcome).halftime_away)
FinalGoals(side) ==
    IF side = 1 THEN Val(Val(outcome).fulltime_home) ELSE Val(Val(outcome).fulltime_away)
SecondHalfGoals(side) == FinalGoals(side) - FirstHalfGoals(side)

SideIndex(name) == IF name = "HOME" THEN 1 ELSE 2
WonFirstHalf(name) == FirstHalfGoals(SideIndex(name)) > FirstHalfGoals(3 - SideIndex(name))
WonSecondHalf(name) == SecondHalfGoals(SideIndex(name)) > SecondHalfGoals(3 - SideIndex(name))

ScoredInBothHalves(name) ==
    FirstHalfGoals(SideIndex(name)) >= 1 /\ SecondHalfGoals(SideIndex(name)) >= 1

FirstHalfTotal == FirstHalfGoals(1) + FirstHalfGoals(2)
SecondHalfTotal == SecondHalfGoals(1) + SecondHalfGoals(2)

\* The half a pick of HIGHEST_SCORING_HALF names
HalfNamed(pick) ==
    CASE pick \in {"FIRST", "1ST"} -> "FIRST"
      [] pick \in {"SECOND", "2ND"} -> "SECOND"
      [] pick \in {"EQUAL", "TIE"} -> "EQUAL"

\* C24: with the half-time and final scores known (second half = final less
\* half-time), TO_WIN_BOTH_HALVES is WON iff the picked side strictly
\* outscored the other in the first half and in the second;
\* TO_WIN_EITHER_HALF is WON iff it did so in the first or in the second;
\* TO_SCORE_IN_BOTH_HALVES is WON for YES iff the team scored in both halves,
\* and for NO iff it did not; HIGHEST_SCORING_HALF is WON iff the pick names
\* FIRST, SECOND or EQUAL as the first-half total is above, below or equal
\* to the second-half total; a selection that is not WON is LOST.  Whenever
\* TO_WIN_BOTH_HALVES is WON for a side, TO_WIN_EITHER_HALF is WON for it.
C24_CrossHalfRules ==
    pc = "done" =>
        LET pick == upper(sel.pick)
            team == upper(Or(sel.team, ""))
            won == results[1].status = WON
            settled == results[1].status \in {WON, LOST}
        IN  /\ (sel.market = "TO_WIN_BOTH_HALVES" /\ pick \in {"HOME", "AWAY"}) =>
                    /\ settled
                    /\ won <=> (WonFirstHalf(pick) /\ WonSecondHalf(pick))
                    /\ won => _result_to_win_either_half(sel, Val(outcome)).status = WON
            /\ (sel.market = "TO_WIN_EITHER_HALF" /\ pick \in {"HOME", "AWAY"}) =>
                    /\ settled
                    /\ won <=> (WonFirstHalf(pick) \/ WonSecondHalf(pick))
            /\ (sel.market = "TO_SCORE_IN_BOTH_HALVES" /\ team \in {"HOME", "AWAY"}
                    /\ pick \in {"YES", "NO"}) =>
                    /\ settled
                    /\ won <=> (pick = "YES" <=> ScoredInBothHalves(team))
            /\ (sel.market = "HIGHEST_SCORING_HALF"
                    /\ pick \in {"FIRST", "SECOND", "EQUAL", "1ST", "2ND", "TIE"}) =>
                    /\ settled
                    /\ won <=> HalfNamed(pick) =
                                (IF FirstHalfTotal > SecondHalfTotal THEN "FIRST"
                                 ELSE IF FirstHalfTotal < SecondHalfTotal THEN "SECOND"
                                 ELSE "EQUAL")

\* Half-time 1:0, final 2:0: TO_WIN_BOTH_HALVES on HOME has been settled WON
C24_Witness ==
    /\ pc = "done"
    /\ sel.market = "TO_WIN_BOTH_HALVES"
    /\ sel.pick = "HOME"
    /\ FirstHalfGoals(1) = 1 /\ FirstHalfGoals(2) = 0
    /\ FinalGoals(1) = 2 /\ FinalGoals(2) = 0
    /\ results[1].status = WON
----------------------------------------------------------------------------
(* Claims about the first and the last team to score, checked under        *)
(* SpecScorers                                                             *)

\* A goal that counts for a team: a goal event that is neither an own goal
\* nor a missed penalty nor a goal disallowed on review
Qualifies(ev) ==
    /\ upper(ev.type) = "GOAL"
    /\ ~HasSubstring(upper(ev.detail), "OWN GOAL")
    /\ ~HasSubstring(upper(ev.detail), "MISSED")
    /\ ~HasSubstring(upper(ev.detail), "DISALLOWED")

QualifyingGoals == SelectSeq(Val(payload).events, Qualifies)

SideOf(ev) == IF ev.team_id = Val(payload).home_team_id THEN "HOME" ELSE "AWAY"

\* The sides of the qualifying goals no qualifying goal comes before / after
EarliestSides ==
    {SideOf(QualifyingGoals[k]) : k \in {i \in 1..Len(QualifyingGoals) :
        \A j \in 1..Len(QualifyingGoals) : ~Before(QualifyingGoals[j], QualifyingGoals[i])}}
LatestSides ==
    {SideOf(QualifyingGoals[k]) : k \in {i \in 1..Len(QualifyingGoals) :
        \A j \in 1..Len(QualifyingGoals) : ~Before(QualifyingGoals[i], QualifyingGoals[j])}}

GoallessDraw == Val(payload).home_goals = Some(0) /\ Val(payload).away_goals = Some(0)

\* C25: the first and the last team to score are the sides of the earliest
\* and the latest qualifying goal event in (elapsed, extra) order, own goals
\* and disallowed goals not qualifying; without a qualifying goal event the
\* answer is NONE for both when the final score is 0:0 and unknown
\* otherwise, and an unknown answer settles FIRST_TEAM_TO_SCORE and
\* LAST_TEAM_TO_SCORE as PENDING.
C25_ScorersFromQualifyingGoals ==
    pc \in {"eval", "done"} =>
        LET o == Val(outcome) IN
        /\ QualifyingGoals # <<>> =>
                /\ o.first_to_score # None /\ Val(o.first_to_score) \in EarliestSides
                /\ o.last_to_score # None /\ Val(o.last_to_score) \in LatestSides
        /\ (QualifyingGoals = <<>> /\ GoallessDraw) =>
                o.first_to_score = Some("NONE") /\ o.last_to_score = Some("NONE")
        /\ (QualifyingGoals = <<>> /\ ~GoallessDraw) =>
                /\ o.first_to_score = None /\ o.last_to_score = None
                /\ pc = "done" => results[1].status = PENDING
----------------------------------------------------------------------------
(* Claims about the provider calls of evaluate_betslip, checked under Spec *)

\* C26: for each selection evaluate_betslip calls get_fixture_outcome at
\* most once and get_fixture_statistics at most once and never repeats a
\* failed call; get_fixture_statistics is called only for a statistics
\* market, only after get_fixture_outcome succeeded for that selection and
\* reported a final status.
C26_NoRetryAndStatisticsAfterFinal ==
    /\ \A k \in 1..Len(selections) :
        /\ Cardinality(OutcomeCallsOf(k)) <= 1
        /\ Cardinality(StatsCallsOf(k)) <= 1
    /\ \A i \in 1..Len(calls) :
        /\ calls[i].leg \in 1..Len(selections)
        /\ calls[i].fixture_id = selections[calls[i].leg].fixture_id
        /\ calls[i].fn = "get_fixture_statistics" =>
            /\ selections[calls[i].leg].market \in STATS_MARKETS
            /\ \E j \in 1..(i - 1) :
                /\ calls[j].fn = "get_fixture_outcome"
                /\ calls[j].leg = calls[i].leg
                /\ calls[j].returned # None
                /\ is_final_status(Val(calls[j].returned))

\* A slip of two statistics selections is done: the outcome call of the
\* first leg failed and was not repeated, the second leg had one outcome
\* call and one statistics call
C26_Witness ==
    /\ pc = "done"
    /\ Len(selections) = 2
    /\ selections[1].market \in STATS_MARKETS /\ selections[2].market \in STATS_MARKETS
    /\ Len(calls) = 3
    /\ calls[1].fn = "get_fixture_outcome" /\ calls[1].leg = 1 /\ calls[1].returned = None
    /\ calls[2].fn = "get_fixture_outcome" /\ calls[2].leg = 2
    /\ calls[3].fn = "get_fixture_statistics" /\ calls[3].leg = 2
----------------------------------------------------------------------------
(* Claims about the over/under markets without push, checked under         *)
(* SpecMarkets                                                             *)

\* Totals of the first half, the second half and the match, in goals
HalftimeTotal == Val(Val(outcome).halftime_home) + Val(Val(outcome).halftime_away)
MatchTotal == Val(Val(outcome).home_goals) + Val(Val(outcome).away_goals)

\* A total equals the line of sel
OnTheLine(total) == sel.line # None /\ total * LineScale = Val(sel.line)

\* C27: BOTH_HALVES_OVER_UNDER and RESULT_OVER_UNDER never yield PUSH: when
\* a half total (for RESULT_OVER_UNDER the match total) equals the line, the
\* selection is LOST for pick OVER and LOST for pick UNDER.
C27_NoPushOnTheLine ==
    (pc = "done" /\ sel.market \in {"BOTH_HALVES_OVER_UNDER", "RESULT_OVER_UNDER"}) =>
        /\ results[1].status # PUSH
        /\ (/\ sel.market = "BOTH_HALVES_OVER_UNDER"
            /\ upper(sel.pick) \in {"OVER", "UNDER"}
            /\ ~FulltimeMissing /\ ~HalftimeMissing
            /\ OnTheLine(HalftimeTotal) \/ OnTheLine(MatchTotal - HalftimeTotal))
                => results[1].status = LOST
        /\ (/\ sel.market = "RESULT_OVER_UNDER"
            /\ Parseable(sel.market, sel.pick)
            /\ OnTheLine(MatchTotal))
                => results[1].status = LOST

\* Half-time 1:0 and line 1: BOTH_HALVES_OVER_UNDER has been settled LOST
\* for a pick of UNDER
C27_Witness ==
    /\ pc = "done"
    /\ sel.market = "BOTH_HALVES_OVER_UNDER"
    /\ upper(sel.pick) = "UNDER"
    /\ ~FulltimeMissing /\ ~HalftimeMissing
    /\ HalftimeTotal = 1
    /\ sel.line = Some(LineScale)
    /\ results[1].status = LOST
----------------------------------------------------------------------------
(* Claims about the order of the legs, checked under SpecAgg *)

\* The orders in which n legs can be listed
LegOrders == [n \in 0..MaxAggLen |->
                {f \in [1..n -> 1..n] : \A i, j \in 1..n : i # j => f[i] # f[j]}]

\* The result list rs listed in the order f
Reordered(rs, f) == [k \in 1..Len(rs) |-> rs[f[k]]]

\* C28: the slip status depends only on the multiset of leg statuses:
\* _aggregate_slip_status returns the same value for every permutation of
\* the same result list.
C28_OrderOfLegsIrrelevant ==
    Aggregated =>
        \A f \in LegOrders[Len(results)] :
            _aggregate_slip_status(Reordered(results, f)) = Val(slip)

\* WON, PUSH, LOST has been aggregated to LOST, as LOST, PUSH, WON is
C28_Witness ==
    /\ Aggregated
    /\ ResultStatuses = <<WON, PUSH, LOST>>
    /\ slip = Some(LOST)
    /\ _aggregate_slip_status(Reordered(results, <<3, 2, 1>>)) = LOST
    /\ statuses_of(Reordered(results, <<3, 2, 1>>)) = <<LOST, PUSH, WON>>

\* C29: every fragment parse_raw_bet returns for a recognized market is
\* settleable through the smart path: the Selection the smart endpoint builds
\* from it is accepted by the evaluator of its market, so on a final fixture
\* with complete data it is WON, LOST or PUSH and never NOT_SUPPORTED
\* (margin bets such as "HOME BY 2", team bets and clean sheet bets included).
C29_ParsedBetsAreSettleable ==
    (pc \in {"done", "raised"} /\ SmartParsed.market # UNMAPPED) =>
        /\ pc = "done"
        /\ results[1].status \in {WON, LOST, PUSH}
----------------------------------------------------------------------------
(* Claims about the direct path and the table path, checked under          *)
(* SpecDirect                                                              *)

\* The selection of the request, and the table row with the same fields
DirectInput == Val(payload)[1]
AsTableRow(input) ==
    TableRowIn(input.fixture_id, input.market, input.pick, input.line, input.team)

DirectAccepts(input) == ~IsRaised(SelectionIn(input))
TableAccepts(input) == ~IsRaised(_row_to_selection(AsTableRow(input)))

\* The pick is no reason to reject: with some line and some team, both paths
\* accept the selection
PickAcceptedByBoth(input) ==
    \E ln \in TableLines, tm \in TableTeams :
        /\ DirectAccepts([input EXCEPT !.line = ln, !.team = tm])
        /\ TableAccepts([input EXCEPT !.line = ln, !.team = tm])

\* C30: SelectionIn.validate_market_constraints and _row_to_selection
\* enforce the same line and team requirements: for every market and every
\* combination of line present / absent and team in / out of {HOME, AWAY},
\* one rejects the selection iff the other does, so a selection accepted by
\* the direct path never reaches an evaluator's "Requires line" or
\* "Requires team" NOT_SUPPORTED outcome.
C30_DirectAndTableRequireTheSame ==
    pc # "direct" =>
        /\ pc = "http_422" <=> ~DirectAccepts(DirectInput)
        /\ PickAcceptedByBoth(DirectInput) =>
                (DirectAccepts(DirectInput) <=> TableAccepts(DirectInput))
        /\ pc = "done" => results[1].reason \notin RequiresReasons
====
